---- MODULE Spec2Model ----
(***************************************************************************)
(* A model of the lala pattern-matching language: desugaring of `case` and *)
(* function clauses to decision trees (desugar/pattern.rs), lowering to    *)
(* bytecode and the stack machine (compile.rs), the tree-walking evaluator *)
(* (eval.rs) and the driver (main.rs).                                     *)
(***************************************************************************)
EXTENDS Integers, Sequences, FiniteSets, TLC

(***************************************************************************)
(* Bounds of the model.                                                    *)
(***************************************************************************)
\* largest number literal used in patterns and scrutinee values
MaxNum == 2
\* largest number of clauses of a generated `case`
MaxClauses == 2
\* largest number of function definitions of a generated program
MaxDefs == 2
\* largest number of clauses of a generated function definition
MaxFnClauses == 3
\* largest number of parameter patterns of a generated function clause
MaxArity == 2
\* largest number of make_constant calls of one unit (pool specification)
MaxRequests == 4

(***************************************************************************)
(* Generic helpers on sequences.                                           *)
(***************************************************************************)
Min(S) == CHOOSE x \in S : \A y \in S : x <= y

RECURSIVE AscSeq(_)
\* the elements of a finite set of integers, ascending
AscSeq(S) == IF S = {} THEN <<>> ELSE <<Min(S)>> \o AscSeq(S \ {Min(S)})

\* slice::swap(i, j), 0-based indices
Swap(s, i, j) == [k \in 1..Len(s) |-> IF k = i + 1 THEN s[j + 1]
                                      ELSE IF k = j + 1 THEN s[i + 1] ELSE s[k]]

\* s[1..] of a Rust slice
Rest(s) == SubSeq(s, 2, Len(s))

(***************************************************************************)
(* desugar.rs: patterns, conditions, occurrences, trees, expressions.      *)
(***************************************************************************)
PWildcard == [k |-> "Wildcard", n |-> 0, s |-> "", elements |-> <<>>]
PVariable(name) == [k |-> "Variable", n |-> 0, s |-> name, elements |-> <<>>]
PNumber(value) == [k |-> "Number", n |-> value, s |-> "", elements |-> <<>>]
PString(value) == [k |-> "String", n |-> 0, s |-> value, elements |-> <<>>]
PAtom(value) == [k |-> "Atom", n |-> 0, s |-> value, elements |-> <<>>]
PTuple(elements) == [k |-> "Tuple", n |-> 0, s |-> "", elements |-> elements]

\* enum Cond (called Case in pattern.rs), in declaration order
CondNumber(value) == [c |-> "Number", n |-> value, s |-> ""]
CondString(value) == [c |-> "String", n |-> 0, s |-> value]
CondAtom(value) == [c |-> "Atom", n |-> 0, s |-> value]
CondTuple(size) == [c |-> "Tuple", n |-> size, s |-> ""]
CondCons == [c |-> "Cons", n |-> 0, s |-> ""]
CondNil == [c |-> "Nil", n |-> 0, s |-> ""]

\* enum Acc: the accessors of an occurrence path
AccTup(idx) == [acc |-> "Tup", idx |-> idx]
AccHead == [acc |-> "Head", idx |-> 0]
AccTail == [acc |-> "Tail", idx |-> 0]

Occurrence(root, path) == [root |-> root, path |-> path]

Failure == [t |-> "Failure"]
Leaf(idx) == [t |-> "Leaf", idx |-> idx]
Switch(occ, branches, default) ==
  [t |-> "Switch", occ |-> occ, branches |-> branches, default |-> default]

EVariable(name) == [e |-> "Variable", name |-> name]
ENumber(value) == [e |-> "Number", n |-> value]
EAtom(value) == [e |-> "Atom", s |-> value]
EString(value) == [e |-> "String", s |-> value]
ELet(name, value, next) == [e |-> "Let", bind |-> name, value |-> value, next |-> next]
EMatch(tree, actions) == [e |-> "Match", tree |-> tree, actions |-> actions]
ETuple(elements) == [e |-> "Tuple", elements |-> elements]
EBinary(op, lhs, rhs) == [e |-> "Binary", op |-> op, lhs |-> lhs, rhs |-> rhs]
ECall(callee, arguments) == [e |-> "Call", callee |-> callee, arguments |-> arguments]
EIf(condition, then_branch, else_branch) ==
  [e |-> "If", condition |-> condition, then_branch |-> then_branch,
   else_branch |-> else_branch]
EAccess(expr, idx) == [e |-> "Access", expr |-> expr, idx |-> idx]
ECons(hd, tl) == [e |-> "Cons", hd |-> hd, tl |-> tl]
ENil == [e |-> "Nil"]
\* no expression (an Option or a Result that holds none)
NoExpr == [e |-> "None"]

(***************************************************************************)
(* The strings of the model and their order (str::cmp is bytewise).        *)
(***************************************************************************)
StrOrder == <<"", "a_1", "a_2", "a_3", "f", "false", "g", "h", "oi", "ok", "tchau", "true",
              "x", "x_0", "x_1", "x_2", "y", "z">>
StrRank(s) == CHOOSE i \in 1..Len(StrOrder) : StrOrder[i] = s

\* #[derive(PartialOrd, Ord)] on Cond: by variant, then by payload
CondRank(c) == CASE c.c = "Number" -> 0
                 [] c.c = "String" -> 1
                 [] c.c = "Atom" -> 2
                 [] c.c = "Tuple" -> 3
                 [] c.c = "Cons" -> 4
                 [] c.c = "Nil" -> 5

CondLess(a, b) ==
  \/ CondRank(a) < CondRank(b)
  \/ /\ a.c = b.c
     /\ \/ a.n < b.n
        \/ a.n = b.n /\ StrRank(a.s) < StrRank(b.s)

RECURSIVE BTreeIter(_)
\* iteration of a BTreeSet<Cond>: ascending
BTreeIter(S) ==
  IF S = {} THEN <<>>
  ELSE LET m == CHOOSE x \in S : \A y \in S : x = y \/ CondLess(x, y)
       IN <<m>> \o BTreeIter(S \ {m})

(***************************************************************************)
(* desugar/pattern.rs                                                      *)
(***************************************************************************)
IsBinding(p) == p.k \in {"Variable", "Wildcard"}

\* Row::is_irrefutable
is_irrefutable(row) == \A j \in 1..Len(row) : IsBinding(row[j])

\* Occurrence::with_index
with_index(occ, idx) == Occurrence(occ.root, Append(occ.path, AccTup(idx)))

\* Occurrence::specialize
occ_specialize(occ, case) ==
  IF case.c = "Tuple" THEN [x \in 1..case.n |-> with_index(occ, x - 1)] ELSE <<>>

\* find_refutable: the index of the first ROW that holds a refutable pattern
find_refutable(matrix) ==
  Min({i \in 0..(Len(matrix) - 1) :
         \E j \in 1..Len(matrix[i + 1]) : ~IsBinding(matrix[i + 1][j])})

swap_matrix(matrix, idx) == [r \in 1..Len(matrix) |-> Swap(matrix[r], 0, idx)]
swap_actions(actions, idx) == Swap(actions, 0, idx)
swap_occurrences(occurrences, refutable) == Swap(occurrences, 0, refutable)

\* the Cond a concrete head pattern is tested with
HeadCond(p) == CASE p.k = "Number" -> CondNumber(p.n)
                 [] p.k = "String" -> CondString(p.s)
                 [] p.k = "Atom" -> CondAtom(p.s)
                 [] p.k = "Tuple" -> CondTuple(Len(p.elements))

\* head_cases collecting into a Vec: the heads in row order, repeated
head_cases_in_row_order(matrix) ==
  LET rows == AscSeq({r \in 1..Len(matrix) : ~IsBinding(matrix[r][1])})
  IN [x \in 1..Len(rows) |-> HeadCond(matrix[rows[x]][1])]

\* head_cases, as the sequence the BTreeSet iterates
head_cases(matrix) ==
  BTreeIter({HeadCond(matrix[r][1]) : r \in {r \in 1..Len(matrix) : ~IsBinding(matrix[r][1])}})

NoRow == [some |-> FALSE, row |-> <<>>]
SomeRow(row) == [some |-> TRUE, row |-> row]

\* Row::specialize
row_specialize(row, case) ==
  LET head == row[1] IN
  IF IsBinding(head) THEN NoRow
  ELSE IF head.k \in {"Number", "String", "Atom"} /\ HeadCond(head) = case
    THEN SomeRow(Rest(row))
  ELSE IF head.k = "Tuple" /\ case.c = "Tuple" /\ case.n = Len(head.elements)
    THEN SomeRow(Rest(row) \o head.elements)
  ELSE NoRow

\* Row::default
row_default(row) == IF IsBinding(row[1]) THEN SomeRow(Rest(row)) ELSE NoRow

\* specialize_matrix
specialize_matrix(matrix, case, actions, occurrences) ==
  LET kept == AscSeq({i \in 1..Len(matrix) : row_specialize(matrix[i], case).some})
  IN [matrix |-> [x \in 1..Len(kept) |-> row_specialize(matrix[kept[x]], case).row],
      actions |-> [x \in 1..Len(kept) |-> actions[kept[x]]],
      occurrences |-> occ_specialize(occurrences[1], case) \o Rest(occurrences)]

\* default_matrix
default_matrix(matrix, actions) ==
  LET kept == AscSeq({i \in 1..Len(matrix) : row_default(matrix[i]).some})
  IN [matrix |-> [x \in 1..Len(kept) |-> row_default(matrix[kept[x]]).row],
      actions |-> [x \in 1..Len(kept) |-> actions[kept[x]]]]

RECURSIVE gen_case_tree(_, _, _)
\* gen_case_tree; action indices are 0-based as in the source
gen_case_tree(matrix0, actions0, occurrences0) ==
  IF Len(matrix0) = 0 THEN Failure
  ELSE IF is_irrefutable(matrix0[1]) THEN Leaf(actions0[1])
  ELSE
    LET refutable == find_refutable(matrix0)
        matrix == swap_matrix(matrix0, refutable)
        actions == swap_actions(actions0, refutable)
        occurrences == swap_occurrences(occurrences0, refutable)
        heads == head_cases(matrix)
        dm == default_matrix(matrix, actions)
        default_case == gen_case_tree(dm.matrix, dm.actions, occurrences)
        branches ==
          [h \in 1..Len(heads) |->
             LET sm == specialize_matrix(matrix, heads[h], actions, occurrences)
             IN <<heads[h], gen_case_tree(sm.matrix, sm.actions, sm.occurrences)>>]
    IN Switch(occurrences[1], branches, default_case)

\* Tree::compile
tree_compile(scrutinee, matrix) ==
  gen_case_tree(matrix,
                [i \in 1..Len(matrix) |-> i - 1],
                [i \in 1..Len(scrutinee) |-> Occurrence(scrutinee[i], <<>>)])

RECURSIVE to_expression(_)
\* Occurrence::to_expression: the path folded into nested Access nodes
to_expression(occ) ==
  IF Len(occ.path) = 0 THEN occ.root
  ELSE EAccess(to_expression(Occurrence(occ.root, SubSeq(occ.path, 1, Len(occ.path) - 1))),
               occ.path[Len(occ.path)])

(***************************************************************************)
(* Binders and the construction of a Match (desugar/pattern.rs).           *)
(***************************************************************************)
RECURSIVE bind(_, _)
\* Pattern::binders::bind: the (name, occurrence) insertions, in order
bind(pat, occ) ==
  CASE pat.k = "Variable" -> <<[name |-> pat.s, occ |-> occ]>>
    [] pat.k = "Tuple" ->
         LET RECURSIVE Elems(_)
             Elems(i) == IF i > Len(pat.elements) THEN <<>>
                         ELSE bind(pat.elements[i], with_index(occ, i - 1)) \o Elems(i + 1)
         IN Elems(1)
    [] OTHER -> <<>>

RECURSIVE NamesBy(_, _)
\* a set of names as a sequence, ascending ("asc") or descending ("desc")
NamesBy(S, order) ==
  IF S = {} THEN <<>>
  ELSE LET m == CHOOSE x \in S : \A y \in S :
                  IF order = "asc" THEN StrRank(x) <= StrRank(y) ELSE StrRank(x) >= StrRank(y)
       IN <<m>> \o NamesBy(S \ {m}, order)

\* Pattern::binders, as the sequence `for (binder, name) in pat.binders(e)` visits:
\* a later insert of a name replaces the earlier one, and the HashMap iterates in
\* an unspecified order (here one of two: by name, ascending or descending)
binders(pat, e, order) ==
  LET ins == bind(pat, Occurrence(e, <<>>))
      names == NamesBy({ins[i].name : i \in 1..Len(ins)}, order)
      Last(nm) == ins[CHOOSE i \in 1..Len(ins) :
                        ins[i].name = nm /\ \A j \in (i + 1)..Len(ins) : ins[j].name # nm]
  IN [i \in 1..Len(names) |-> Last(names[i])]

RECURSIVE FoldLets(_, _)
\* ctx.into_iter().fold(action, |acc, (binder, name)| Let { binder, name, acc })
FoldLets(ctx, acc) ==
  IF Len(ctx) = 0 THEN acc
  ELSE FoldLets(Rest(ctx), ELet(ctx[1].name, to_expression(ctx[1].occ), acc))

RECURSIVE Flatten(_)
Flatten(ss) == IF Len(ss) = 0 THEN <<>> ELSE ss[1] \o Flatten(Rest(ss))

MinOf(a, b) == IF a < b THEN a ELSE b

\* compile_match_with_names
compile_match_with_names(scrutinee_names, left, actions, order) ==
  LET n == MinOf(Len(left), Len(actions))
      Ctx(i) == Flatten([j \in 1..MinOf(Len(scrutinee_names), Len(left[i])) |->
                           binders(left[i][j], EVariable(scrutinee_names[j]), order)])
  IN [tree |-> tree_compile([j \in 1..Len(scrutinee_names) |-> EVariable(scrutinee_names[j])],
                            left),
      actions |-> [i \in 1..n |-> FoldLets(Ctx(i), actions[i])]]

\* format!("a_{gen}")
GenScrutineeName(gen) == <<"a_1", "a_2", "a_3">>[gen]

RECURSIVE FoldScrutineeLets(_, _, _, _)
FoldScrutineeLets(names, scrutinee, i, x) ==
  IF i > Len(scrutinee) THEN x
  ELSE FoldScrutineeLets(names, scrutinee, i + 1,
         IF scrutinee[i].e # "Variable" THEN ELet(names[i], scrutinee[i], x) ELSE x)

\* compile_match (Problem::compile in expression.rs)
compile_match(scrutinee, left, actions, order) ==
  LET names == [i \in 1..Len(scrutinee) |->
                  IF scrutinee[i].e = "Variable" THEN scrutinee[i].name
                  ELSE GenScrutineeName(i)]
      m == compile_match_with_names(names, left, actions, order)
  IN FoldScrutineeLets(names, scrutinee, 1, EMatch(m.tree, m.actions))

(***************************************************************************)
(* ast.rs and desugar/expression.rs                                        *)
(***************************************************************************)
AVariable(name) == [a |-> "Variable", name |-> name]
ANumber(value) == [a |-> "Number", n |-> value]
AAtom(value) == [a |-> "Atom", s |-> value]
AString(value) == [a |-> "String", s |-> value]
ALet(name, value, next) == [a |-> "Let", bind |-> name, value |-> value, next |-> next]
AMatch(scrutinee, arms) == [a |-> "Match", scrutinee |-> scrutinee, arms |-> arms]
ATuple(elements) == [a |-> "Tuple", elements |-> elements]
ABinary(op, lhs, rhs) == [a |-> "Binary", op |-> op, lhs |-> lhs, rhs |-> rhs]
ACall(callee, arguments) == [a |-> "Call", callee |-> callee, arguments |-> arguments]
AIf(condition, then_branch, else_branch) ==
  [a |-> "If", condition |-> condition, then_branch |-> then_branch,
   else_branch |-> else_branch]
AList(elements) == [a |-> "List", elements |-> elements]
Arm(lhs, rhs) == [lhs |-> lhs, rhs |-> rhs]

RECURSIVE pattern_desugar(_)
\* ast::Pattern::desugar
pattern_desugar(p) ==
  CASE p.k = "Wildcard" -> PWildcard
    [] p.k = "Variable" -> PVariable(p.s)
    [] p.k = "Number" -> PNumber(p.n)
    [] p.k = "String" -> PString(p.s)
    [] p.k = "Atom" -> PAtom(p.s)
    [] p.k = "Tuple" -> PTuple([i \in 1..Len(p.elements) |-> pattern_desugar(p.elements[i])])

RECURSIVE RFoldCons(_)
\* elements.rfold(Nil, |acc, nxt| Cons { hd: nxt, tl: acc })
RFoldCons(es) == IF Len(es) = 0 THEN ENil ELSE ECons(es[1], RFoldCons(Rest(es)))

RECURSIVE desugar(_, _)
\* <ast::Expression as Desugar>::desugar; it has no failing case
desugar(x, order) ==
  CASE x.a = "Variable" -> EVariable(x.name)
    [] x.a = "Number" -> ENumber(x.n)
    [] x.a = "Atom" -> EAtom(x.s)
    [] x.a = "String" -> EString(x.s)
    [] x.a = "Let" -> ELet(x.bind, desugar(x.value, order), desugar(x.next, order))
    [] x.a = "Match" ->
         compile_match(
           [i \in 1..Len(x.scrutinee) |-> desugar(x.scrutinee[i], order)],
           [i \in 1..Len(x.arms) |->
              [j \in 1..Len(x.arms[i].lhs) |-> pattern_desugar(x.arms[i].lhs[j])]],
           [i \in 1..Len(x.arms) |-> desugar(x.arms[i].rhs, order)],
           order)
    [] x.a = "Tuple" -> ETuple([i \in 1..Len(x.elements) |-> desugar(x.elements[i], order)])
    [] x.a = "Binary" -> EBinary(x.op, desugar(x.lhs, order), desugar(x.rhs, order))
    [] x.a = "Call" ->
         ECall(desugar(x.callee, order),
               [i \in 1..Len(x.arguments) |-> desugar(x.arguments[i], order)])
    [] x.a = "If" ->
         EIf(desugar(x.condition, order), desugar(x.then_branch, order),
             desugar(x.else_branch, order))
    [] x.a = "List" ->
         RFoldCons([i \in 1..Len(x.elements) |-> desugar(x.elements[i], order)])

(***************************************************************************)
(* compile.rs: the bytecode compiler                                       *)
(***************************************************************************)
\* u16::MAX
U16_MAX == 65535
\* const TEMP_BRANCH
TEMP_BRANCH == 0

\* enum Bytecode; a is the operand (val, id, size, index), b the branch target
Ins(op, a, b) == [op |-> op, a |-> a, b |-> b]

\* enum Constant
ConstNumber(value) == [k |-> "Number", n |-> value, s |-> ""]
ConstAtom(value) == [k |-> "Atom", n |-> 0, s |-> value]
ConstString(value) == [k |-> "String", n |-> 0, s |-> value]

\* The constant pool, IndexMap<Constant, u16>, in insertion order. A pool that
\* starts with the number constants 0, 1, ..., run - 1, inserted in that order, holds
\* them as the count `run` (the i-th is Number(i) with id i); the entries inserted
\* after them are listed. The pool of a new Ctx has run 0.
Pool(run, entries) == [run |-> run, entries |-> entries]
PoolLen(p) == p.run + Len(p.entries)
InRun(p, c) == c.k = "Number" /\ c.n >= 0 /\ c.n < p.run
PoolHas(p, c) == InRun(p, c) \/ \E i \in 1..Len(p.entries) : p.entries[i].key = c
PoolId(p, c) ==
  IF InRun(p, c) THEN c.n
  ELSE p.entries[CHOOSE i \in 1..Len(p.entries) : p.entries[i].key = c].id
\* constants.keys().cloned().collect()[id], of Machine::new and load_constant
PoolKeyAt(p, id) == IF id < p.run THEN ConstNumber(id) ELSE p.entries[id - p.run + 1].key
PoolInsert(p, c, id) == [p EXCEPT !.entries = Append(p.entries, [key |-> c, id |-> id])]

\* Ctx::new; panic records the panic that unwound the compilation, if any
NewCtx == [bytecode |-> <<>>, constants |-> Pool(0, <<>>), locals |-> <<>>, panic |-> ""]

Panicked(ctx, why) == [ctx EXCEPT !.panic = IF ctx.panic = "" THEN why ELSE ctx.panic]

\* Ctx::push
push(ctx, ins) ==
  IF ctx.panic # "" THEN ctx ELSE [ctx EXCEPT !.bytecode = Append(ctx.bytecode, ins)]

HasLocal(ctx, name) == \E i \in 1..Len(ctx.locals) : ctx.locals[i].name = name
LocalOf(ctx, name) ==
  ctx.locals[CHOOSE i \in 1..Len(ctx.locals) : ctx.locals[i].name = name].id

\* Ctx::make_local: the new id is the number of names, also for a name already there
make_local(ctx, name) ==
  LET id == Len(ctx.locals) IN
  IF ctx.panic # "" THEN [ctx |-> ctx, id |-> 0]
  ELSE IF HasLocal(ctx, name)
    THEN [ctx |-> [ctx EXCEPT !.locals =
                     [i \in 1..Len(ctx.locals) |->
                        IF ctx.locals[i].name = name THEN [name |-> name, id |-> id]
                        ELSE ctx.locals[i]]],
          id |-> id]
  ELSE [ctx |-> [ctx EXCEPT !.locals = Append(ctx.locals, [name |-> name, id |-> id])],
        id |-> id]

\* make_constant without the lookup: every request inserts
make_constant_always_inserts(ctx, constant) ==
  LET id == PoolLen(ctx.constants) IN
  IF ctx.panic # "" THEN [ctx |-> ctx, id |-> 0]
  ELSE IF ~(id < U16_MAX) THEN [ctx |-> Panicked(ctx, "constant pool"), id |-> 0]
  ELSE [ctx |-> [ctx EXCEPT !.constants = PoolInsert(ctx.constants, constant, id)],
        id |-> id]

\* Ctx::make_constant: the assertion comes before the lookup
make_constant(ctx, constant) ==
  LET id == PoolLen(ctx.constants) IN
  IF ctx.panic # "" THEN [ctx |-> ctx, id |-> 0]
  ELSE IF ~(id < U16_MAX) THEN [ctx |-> Panicked(ctx, "constant pool"), id |-> 0]
  ELSE IF PoolHas(ctx.constants, constant)
    THEN [ctx |-> ctx, id |-> PoolId(ctx.constants, constant)]
  ELSE [ctx |-> [ctx EXCEPT !.constants = PoolInsert(ctx.constants, constant, id)],
        id |-> id]

\* the projection instruction of one accessor (compile_occ, compile_expr Access)
AccIns(acc) == CASE acc.acc = "Tup" -> Ins("GetTuple", acc.idx, 0)
                 [] acc.acc = "Head" -> Ins("GetHd", 0, 0)
                 [] acc.acc = "Tail" -> Ins("GetTl", 0, 0)

\* Ctx::compile_cond: the test is pushed with a placeholder target
compile_cond(ctx, cond) ==
  CASE cond.c = "Cons" -> push(ctx, Ins("TestCons", 0, TEMP_BRANCH))
    [] cond.c = "Nil" -> push(ctx, Ins("TestNil", 0, TEMP_BRANCH))
    [] cond.c = "Number" ->
         LET r == make_constant(ctx, ConstNumber(cond.n))
         IN push(r.ctx, Ins("TestExact", r.id, TEMP_BRANCH))
    [] cond.c = "String" ->
         LET r == make_constant(ctx, ConstString(cond.s))
         IN push(r.ctx, Ins("TestExact", r.id, TEMP_BRANCH))
    [] cond.c = "Atom" ->
         LET r == make_constant(ctx, ConstAtom(cond.s))
         IN push(r.ctx, Ins("TestExact", r.id, TEMP_BRANCH))
    [] cond.c = "Tuple" -> push(ctx, Ins("TestTuple", cond.n, TEMP_BRANCH))

\* `*branch = len` on the test at cond_location (0-based)
PatchBranch(ctx, cond_location, len) ==
  IF ctx.panic # "" THEN ctx
  ELSE [ctx EXCEPT !.bytecode[cond_location + 1].b = len]

\* the patching of the collected jumps that skips the first one
PatchJumpsButFirst(ctx, jumps, next_bytecode) ==
  LET RECURSIVE P(_, _)
      P(c, js) == IF Len(js) = 0 THEN c
                  ELSE P([c EXCEPT !.bytecode[js[1] + 1].a = next_bytecode], Rest(js))
  IN IF ctx.panic # "" \/ Len(jumps) = 0 THEN ctx ELSE P(ctx, Rest(jumps))

RECURSIVE PatchJumps(_, _, _)
\* `*index = next_bytecode` on every collected Jump
PatchJumps(ctx, jumps, next_bytecode) ==
  IF ctx.panic # "" \/ Len(jumps) = 0 THEN ctx
  ELSE PatchJumps([ctx EXCEPT !.bytecode[jumps[1] + 1].a = next_bytecode],
                  Rest(jumps), next_bytecode)

RECURSIVE compile_expr(_, _)
RECURSIVE compile_case_tree(_, _, _, _)
RECURSIVE CompileElements(_, _)
RECURSIVE CompileBranches(_, _, _, _, _, _)

\* `for element in elements { self.compile_expr(element) }`
CompileElements(ctx, elements) ==
  IF Len(elements) = 0 THEN ctx
  ELSE CompileElements(compile_expr(ctx, elements[1]), Rest(elements))

RECURSIVE PushAccessors(_, _)
PushAccessors(ctx, path) ==
  IF Len(path) = 0 THEN ctx ELSE PushAccessors(push(ctx, AccIns(path[1])), Rest(path))

\* Ctx::compile_occ
compile_occ(ctx, occurrence) == PushAccessors(compile_expr(ctx, occurrence.root), occurrence.path)

\* the `while let Some((cond, tree)) = branches.next()` loop of compile_case_tree,
\* from branch i on; st is [ctx, jumps]
CompileBranches(st, occ, branches, default, actions, i) ==
  IF i > Len(branches) THEN st
  ELSE
    LET c1 == compile_occ(st.ctx, occ)
        cond_location == Len(c1.bytecode)
        c2 == compile_cond(c1, branches[i][1])
        s3 == compile_case_tree(c2, branches[i][2], actions, st.jumps)
    IN IF i < Len(branches)
         THEN CompileBranches(
                [ctx |-> PatchBranch(s3.ctx, cond_location, Len(s3.ctx.bytecode)),
                 jumps |-> s3.jumps],
                occ, branches, default, actions, i + 1)
         ELSE LET len == Len(s3.ctx.bytecode)
                  s4 == compile_case_tree(s3.ctx, default, actions, s3.jumps)
              IN [ctx |-> PatchBranch(s4.ctx, cond_location, len), jumps |-> s4.jumps]

\* Ctx::compile_case_tree; the result is [ctx, jumps]
compile_case_tree(ctx, tree, actions, jumps) ==
  IF ctx.panic # "" THEN [ctx |-> ctx, jumps |-> jumps]
  ELSE CASE tree.t = "Failure" ->
              [ctx |-> push(ctx, Ins("MatchFail", 0, 0)), jumps |-> jumps]
         [] tree.t = "Leaf" ->
              IF tree.idx + 1 > Len(actions)
                THEN [ctx |-> Panicked(ctx, "index out of bounds"), jumps |-> jumps]
              ELSE LET c1 == compile_expr(ctx, actions[tree.idx + 1])
                   IN [ctx |-> push(c1, Ins("Jump", TEMP_BRANCH, 0)),
                       jumps |-> Append(jumps, Len(c1.bytecode))]
         [] tree.t = "Switch" ->
              CompileBranches([ctx |-> ctx, jumps |-> jumps], tree.occ, tree.branches,
                              tree.default, actions, 1)

\* Ctx::compile_expr
compile_expr(ctx, expression) ==
  IF ctx.panic # "" THEN ctx
  ELSE CASE expression.e = "Variable" ->
              IF HasLocal(ctx, expression.name)
                THEN push(ctx, Ins("GetLocal", LocalOf(ctx, expression.name), 0))
              ELSE Panicked(ctx, "no local")
         [] expression.e = "Number" -> push(ctx, Ins("PushNumber", expression.n, 0))
         [] expression.e = "Atom" ->
              LET r == make_constant(ctx, ConstAtom(expression.s))
              IN push(r.ctx, Ins("LoadConstant", r.id, 0))
         [] expression.e = "String" ->
              LET r == make_constant(ctx, ConstString(expression.s))
              IN push(r.ctx, Ins("LoadConstant", r.id, 0))
         [] expression.e = "Let" ->
              LET c1 == compile_expr(ctx, expression.value)
                  r == make_local(c1, expression.bind)
              IN compile_expr(push(r.ctx, Ins("SetLocal", r.id, 0)), expression.next)
         [] expression.e = "Match" ->
              LET st == compile_case_tree(ctx, expression.tree, expression.actions, <<>>)
              IN PatchJumps(st.ctx, st.jumps, Len(st.ctx.bytecode))
         [] expression.e = "Tuple" ->
              push(CompileElements(ctx, expression.elements),
                   Ins("MakeTuple", Len(expression.elements), 0))
         [] expression.e \in {"Binary", "Call"} -> Panicked(ctx, "todo")
         [] expression.e = "If" ->
              LET c1 == compile_expr(ctx, expression.condition)
                  r == make_constant(c1, ConstAtom("true"))
                  c2 == push(r.ctx, Ins("LoadConstant", r.id, 0))
                  branch == Len(c2.bytecode)
                  c3 == push(c2, Ins("TestExact", r.id, 0))
                  c4 == compile_expr(c3, expression.else_branch)
                  c5 == PatchBranch(c4, branch, Len(c4.bytecode))
              IN compile_expr(c5, expression.then_branch)
         [] expression.e = "Access" ->
              push(compile_expr(ctx, expression.expr), AccIns(expression.idx))
         [] expression.e \in {"Cons", "Nil"} -> push(ctx, Ins("Undefined", 0, 0))

\* Ctx::fn_clause
fn_clause(ctx, expression) == push(compile_expr(ctx, expression), Ins("Return", 0, 0))

RECURSIVE MakeLocals(_, _)
MakeLocals(ctx, parameters) ==
  IF Len(parameters) = 0 THEN ctx
  ELSE MakeLocals(make_local(ctx, parameters[1]).ctx, Rest(parameters))

\* Ctx::fn_definition
fn_definition(ctx, fun) == fn_clause(MakeLocals(ctx, fun.parameters), fun.body)

\* Ctx::bytecode: the unit (BytecodeInfo); a panic of the compilation yields none
bytecode(ctx) ==
  [bytecode |-> ctx.bytecode, locals |-> Len(ctx.locals), constants |-> ctx.constants]

\* Ctx::bytecode without `self.locals.clear()`
AfterBytecodeKeepsLocals(ctx) ==
  [ctx EXCEPT !.bytecode = <<>>, !.constants = Pool(0, <<>>)]

\* the Ctx that Ctx::bytecode leaves behind: code and constants taken, locals cleared
AfterBytecode(ctx) ==
  [ctx EXCEPT !.bytecode = <<>>, !.constants = Pool(0, <<>>), !.locals = <<>>]

(***************************************************************************)
(* compile.rs: the stack machine                                           *)
(***************************************************************************)
\* enum Value
VNumber(value) == [k |-> "Number", n |-> value, s |-> "", elements |-> <<>>]
VAtom(value) == [k |-> "Atom", n |-> 0, s |-> value, elements |-> <<>>]
VString(value) == [k |-> "String", n |-> 0, s |-> value, elements |-> <<>>]
VTuple(elements) == [k |-> "Tuple", n |-> 0, s |-> "", elements |-> elements]
\* impl Default for Value
ValueDefault == VNumber(0)

\* Machine::load_constant on the constant found at an id
ConstantValue(c) == CASE c.k = "Number" -> VNumber(c.n)
                      [] c.k = "Atom" -> VAtom(c.s)
                      [] c.k = "String" -> VString(c.s)

\* the match of TestExact: same kind and same payload
TestExactMatches(a, b) ==
  \/ a.k = "Number" /\ b.k = "Number" /\ a.n = b.n
  \/ a.k = "Atom" /\ b.k = "Atom" /\ a.s = b.s
  \/ a.k = "String" /\ b.k = "String" /\ a.s = b.s

\* the match of TestTuple
TestTupleMatches(a, size) == a.k = "Tuple" /\ Len(a.elements) = size

Top(st) == st[Len(st)]
Pop(st) == SubSeq(st, 1, Len(st) - 1)

RECURSIVE MakeTupleElementsPush(_, _, _)
\* MakeTuple with `s.push(..)` in place of `s.insert(0, ..)`
MakeTupleElementsPush(st, size, s) ==
  IF size = 0 THEN s ELSE MakeTupleElementsPush(Pop(st), size - 1, s \o <<Top(st)>>)

RECURSIVE MakeTupleElements(_, _, _)
\* MakeTuple: `for _ in 0..size { s.insert(0, stack.pop().unwrap()) }`, s so far
MakeTupleElements(st, size, s) ==
  IF size = 0 THEN s ELSE MakeTupleElements(Pop(st), size - 1, <<Top(st)>> \o s)

(***************************************************************************)
(* desugar/fn_definition.rs and desugar/program.rs                         *)
(***************************************************************************)
\* ast::FnClause, ast::FnDefinition
FnClause(patterns, body) == [patterns |-> patterns, body |-> body]
AFnDefinition(name, clauses) == [name |-> name, clauses |-> clauses]

\* desugar::FnDefinition
FnDefinition(name, parameters, body) ==
  [name |-> name, parameters |-> parameters, body |-> body]
NoFnDefinition == FnDefinition("", <<>>, NoExpr)

\* format!("{}: Arity error, expected {arity} but got {curr_arity}", self.name):
\* the message, as the three values it is formatted from
ArityError(name, arity, curr_arity) == [name |-> name, expected |-> arity, got |-> curr_arity]
NoError == ArityError("", 0, 0)

\* gen_name: format!("x_{gen}")
gen_name(gen) == <<"x_0", "x_1", "x_2", "x_3">>[gen + 1]

\* Expression::Match { tree, actions } of the pair a Problem returns
MatchOf(m) == EMatch(m.tree, m.actions)

\* the Err that reports the arities the other way round
fn_desugar_swapped(def, order) ==
  LET patterns == [c \in 1..Len(def.clauses) |->
                     [j \in 1..Len(def.clauses[c].patterns) |->
                        pattern_desugar(def.clauses[c].patterns[j])]]
      actions == [c \in 1..Len(def.clauses) |-> desugar(def.clauses[c].body, order)]
      arity == Len(patterns[1])
      differing == {c \in 1..Len(patterns) : Len(patterns[c]) # arity}
  IN IF differing # {}
       THEN [ok |-> FALSE, def |-> NoFnDefinition,
             err |-> ArityError(def.name, Len(patterns[Min(differing)]), arity)]
     ELSE LET parameters == [g \in 1..arity |-> gen_name(g - 1)]
          IN [ok |-> TRUE, err |-> NoError,
              def |-> FnDefinition(def.name, parameters,
                        MatchOf(compile_match_with_names(parameters, patterns, actions,
                                                         order)))]

\* <ast::FnDefinition as Desugar>::desugar: Err at the first clause whose number
\* of patterns differs from the first clause's, else the definition whose body is
\* the Match over the generated parameters (Problem::with_parameters)
fn_desugar(def, order) ==
  LET patterns == [c \in 1..Len(def.clauses) |->
                     [j \in 1..Len(def.clauses[c].patterns) |->
                        pattern_desugar(def.clauses[c].patterns[j])]]
      actions == [c \in 1..Len(def.clauses) |-> desugar(def.clauses[c].body, order)]
      arity == Len(patterns[1])
      differing == {c \in 1..Len(patterns) : Len(patterns[c]) # arity}
  IN IF differing # {}
       THEN [ok |-> FALSE, def |-> NoFnDefinition,
             err |-> ArityError(def.name, arity, Len(patterns[Min(differing)]))]
     ELSE LET parameters == [g \in 1..arity |-> gen_name(g - 1)]
          IN [ok |-> TRUE, err |-> NoError,
              def |-> FnDefinition(def.name, parameters,
                        MatchOf(compile_match_with_names(parameters, patterns, actions,
                                                         order)))]

\* maps (BTreeMap, HashMap) as functions
EmptyMap == [x \in {} |-> NoExpr]
MapPut(m, key, value) == [x \in (DOMAIN m) \cup {key} |-> IF x = key THEN value ELSE m[x]]

\* the map with the definition of r, when r holds one
InsertIfOk(acc, name, r) == IF r.ok THEN MapPut(acc, name, r.def) ELSE acc

RECURSIVE program_desugar_skips(_, _, _)
\* the loop of Program::desugar that leaves out a definition that fails
program_desugar_skips(definitions, order, acc) ==
  IF Len(definitions) = 0 THEN [ok |-> TRUE, definitions |-> acc, err |-> NoError]
  ELSE program_desugar_skips(Rest(definitions), order,
                             InsertIfOk(acc, definitions[1].name,
                                        fn_desugar(definitions[1], order)))

RECURSIVE program_desugar(_, _, _)
RECURSIVE program_desugar_insert(_, _, _, _, _)
\* <ast::Program as Desugar>::desugar: `definitions.insert(name, definition.desugar()?)`
\* for each definition in order, from the map acc
program_desugar(definitions, order, acc) ==
  IF Len(definitions) = 0 THEN [ok |-> TRUE, definitions |-> acc, err |-> NoError]
  ELSE program_desugar_insert(Rest(definitions), order, acc, definitions[1].name,
                              fn_desugar(definitions[1], order))

\* `definitions.insert(name, r?)`, then the rest of the loop
program_desugar_insert(rest, order, acc, name, r) ==
  IF ~r.ok THEN [ok |-> FALSE, definitions |-> EmptyMap, err |-> r.err]
  ELSE program_desugar(rest, order, MapPut(acc, name, r.def))

(***************************************************************************)
(* eval.rs: the tree-walking evaluator                                     *)
(***************************************************************************)
\* Result<desugar::Expression, String>, and a panic of the evaluation
Ok(v) == [kind |-> "Ok", v |-> v, idx |-> 0, err |-> ""]
OkIdx(idx) == [kind |-> "Ok", v |-> NoExpr, idx |-> idx, err |-> ""]
Err(msg) == [kind |-> "Err", v |-> NoExpr, idx |-> 0, err |-> msg]
EvalPanic == [kind |-> "Panic", v |-> NoExpr, idx |-> 0, err |-> ""]

\* struct Env; Env::from_program
Env(fn_definitions, variables) == [fn_definitions |-> fn_definitions, variables |-> variables]
from_program(definitions) == Env(definitions, EmptyMap)

\* i32::MAX
I32_MAX == 2147483647
\* i32::MIN
I32_MIN == (-I32_MAX) - 1
\* i32 arithmetic of a build with overflow checks
I32(n) == IF n < I32_MIN \/ n > I32_MAX THEN EvalPanic ELSE Ok(ENumber(n))

\* integer division truncating toward zero
TruncDiv(a, b) ==
  LET q == (IF a < 0 THEN -a ELSE a) \div (IF b < 0 THEN -b ELSE b)
  IN IF (a < 0) # (b < 0) THEN -q ELSE q

RECURSIVE equality(_, _)
\* fn equality
equality(x, y) ==
  \/ x.e = "Number" /\ y.e = "Number" /\ x.n = y.n
  \/ x.e = "String" /\ y.e = "String" /\ x.s = y.s
  \/ x.e = "Atom" /\ y.e = "Atom" /\ x.s = y.s
  \/ /\ x.e = "Tuple" /\ y.e = "Tuple" /\ Len(x.elements) = Len(y.elements)
     /\ \A i \in 1..Len(x.elements) : equality(x.elements[i], y.elements[i])

\* the arm of Tree::eval's match on (case, &expr) that is not `continue`
CondMatches(case, v) ==
  \/ case.c = "Number" /\ v.e = "Number" /\ case.n = v.n
  \/ case.c = "String" /\ v.e = "String" /\ case.s = v.s
  \/ case.c = "Atom" /\ v.e = "Atom" /\ case.s = v.s
  \/ case.c = "Tuple" /\ v.e = "Tuple" /\ case.n = Len(v.elements)

RECURSIVE eval(_, _)
RECURSIVE tree_eval(_, _)
RECURSIVE EvalFlatMap(_, _)
RECURSIVE EvalArguments(_, _, _, _)

\* elements.into_iter().flat_map(|e| self.eval(e)): an Err yields no element
EvalFlatMap(env, elements) ==
  IF Len(elements) = 0 THEN [panic |-> FALSE, vs |-> <<>>]
  ELSE LET r == eval(env, elements[1]) IN
       IF r.kind = "Panic" THEN [panic |-> TRUE, vs |-> <<>>]
       ELSE LET rest == EvalFlatMap(env, Rest(elements)) IN
            [panic |-> rest.panic,
             vs |-> (IF r.kind = "Ok" THEN <<r.v>> ELSE <<>>) \o rest.vs]

\* for (x, y) in parameters.zip(arguments) { new_env.variables.insert(x, self.eval(y)?) }
EvalArguments(env, new_env, parameters, arguments) ==
  IF Len(parameters) = 0 \/ Len(arguments) = 0 THEN [r |-> Ok(NoExpr), env |-> new_env]
  ELSE LET r == eval(env, arguments[1]) IN
       IF r.kind # "Ok" THEN [r |-> r, env |-> new_env]
       ELSE EvalArguments(env,
              [new_env EXCEPT !.variables = MapPut(new_env.variables, parameters[1], r.v)],
              Rest(parameters), Rest(arguments))

\* Tree::eval
tree_eval(tree, env) ==
  CASE tree.t = "Failure" -> Err("Match failure")
    [] tree.t = "Leaf" -> OkIdx(tree.idx)
    [] tree.t = "Switch" ->
         LET r == eval(env, to_expression(tree.occ)) IN
         IF r.kind # "Ok" THEN r
         ELSE LET hits == {i \in 1..Len(tree.branches) : CondMatches(tree.branches[i][1], r.v)}
              IN IF hits = {} THEN tree_eval(tree.default, env)
                 ELSE LET res == tree_eval(tree.branches[Min(hits)][2], env)
                      IN IF res.kind = "Err" THEN tree_eval(tree.default, env) ELSE res

\* Env::eval
eval(env, expr) ==
  CASE expr.e = "Variable" ->
         IF expr.name \in DOMAIN env.variables THEN Ok(env.variables[expr.name])
         ELSE Err("Unbound variable")
    [] expr.e \in {"Number", "Atom", "String"} -> Ok(expr)
    [] expr.e = "Let" ->
         LET r == eval(env, expr.value) IN
         IF r.kind # "Ok" THEN r
         ELSE eval([env EXCEPT !.variables = MapPut(env.variables, expr.bind, r.v)], expr.next)
    [] expr.e = "Match" ->
         LET r == tree_eval(expr.tree, env) IN
         IF r.kind # "Ok" THEN r
         ELSE IF r.idx + 1 > Len(expr.actions) THEN EvalPanic
         ELSE eval(env, expr.actions[r.idx + 1])
    [] expr.e = "Tuple" ->
         LET r == EvalFlatMap(env, expr.elements) IN
         IF r.panic THEN EvalPanic ELSE Ok(ETuple(r.vs))
    [] expr.e = "Binary" ->
         LET l == eval(env, expr.lhs) IN
         IF l.kind # "Ok" THEN l
         ELSE LET r == eval(env, expr.rhs) IN
              IF r.kind # "Ok" THEN r
              ELSE IF expr.op = "Equal"
                THEN Ok(EAtom(IF equality(l.v, r.v) THEN "true" ELSE "false"))
              ELSE IF l.v.e = "Number" /\ r.v.e = "Number"
                THEN CASE expr.op = "Add" -> I32(l.v.n + r.v.n)
                       [] expr.op = "Sub" -> I32(l.v.n - r.v.n)
                       [] expr.op = "Mul" -> I32(l.v.n * r.v.n)
                       [] expr.op = "Div" ->
                            IF r.v.n = 0 THEN EvalPanic ELSE I32(TruncDiv(l.v.n, r.v.n))
              ELSE Err("Invalid binary operation.")
    [] expr.e = "Call" ->
         IF expr.callee.e # "Variable" THEN Err("Callee must be a variable name")
         ELSE IF expr.callee.name \notin DOMAIN env.fn_definitions
           THEN Err("Unbound function definition")
         ELSE LET def == env.fn_definitions[expr.callee.name]
                  a == EvalArguments(env, env, def.parameters, expr.arguments)
              IN IF a.r.kind # "Ok" THEN a.r ELSE eval(a.env, def.body)
    [] expr.e = "Access" ->
         LET r == eval(env, expr.expr) IN
         IF r.kind # "Ok" THEN r
         ELSE IF r.v.e = "Tuple"
           THEN IF expr.idx.idx < Len(r.v.elements)
                  THEN eval(env, r.v.elements[expr.idx.idx + 1])
                ELSE Err("Index out of bounds")
         ELSE Err("Accessing not tuple element")
    [] expr.e = "If" ->
         LET r == eval(env, expr.condition) IN
         IF r.kind # "Ok" THEN r
         ELSE IF r.v.e = "Atom" /\ r.v.s = "true" THEN eval(env, expr.then_branch)
         ELSE eval(env, expr.else_branch)

RECURSIVE FailureReached(_, _)
RECURSIVE TreeFailureReached(_, _)

\* Tree::eval, as what it visits: a Failure node is evaluated
TreeFailureReachedAt(tree, env, r) ==
  /\ r.kind = "Ok"
  /\ LET hits == {i \in 1..Len(tree.branches) : CondMatches(tree.branches[i][1], r.v)}
     IN IF hits = {} THEN TreeFailureReached(tree.default, env)
        ELSE \/ TreeFailureReached(tree.branches[Min(hits)][2], env)
             \/ /\ tree_eval(tree.branches[Min(hits)][2], env).kind = "Err"
                /\ TreeFailureReached(tree.default, env)

TreeFailureReached(tree, env) ==
  CASE tree.t = "Failure" -> TRUE
    [] tree.t = "Leaf" -> FALSE
    [] tree.t = "Switch" ->
         TreeFailureReachedAt(tree, env, eval(env, to_expression(tree.occ)))

\* Env::eval of a Let, as what it visits
FailureReachedAfter(env, expr, r) ==
  /\ r.kind = "Ok"
  /\ FailureReached([env EXCEPT !.variables = MapPut(env.variables, expr.bind, r.v)],
                    expr.next)

\* Env::eval, as what it visits: the tree of the Match under the scrutinee Lets
\* evaluates a Failure node
FailureReached(env, x) ==
  CASE x.e = "Let" -> FailureReachedAfter(env, x, eval(env, x.value))
    [] x.e = "Match" -> TreeFailureReached(x.tree, env)
    [] OTHER -> FALSE

(***************************************************************************)
(* The programs the pipeline is run on.                                    *)
(***************************************************************************)
\* largest tuple literal of the generated tuple programs
MaxTuple == 3

RECURSIVE PatVars(_)
\* the variable names of a pattern
PatVars(p) ==
  CASE p.k = "Variable" -> {p.s}
    [] p.k \in {"Tuple", "List"} -> UNION {PatVars(p.elements[i]) : i \in 1..Len(p.elements)}
    [] OTHER -> {}

RowVars(row) == UNION {PatVars(row[j]) : j \in 1..Len(row)}

\* the right-hand side of clause i (0-based): its index, with the clause's variables
ClauseAction(i, row) ==
  IF RowVars(row) = {} THEN ANumber(i)
  ELSE LET names == NamesBy(RowVars(row), "asc")
       IN ATuple(<<ANumber(i)>> \o [j \in 1..Len(names) |-> AVariable(names[j])])

\* `case scrutinee of rows[1] -> ...; rows[2] -> ... end`
CaseOf(scrutinee, rows) ==
  AMatch(scrutinee, [i \in 1..Len(rows) |-> Arm(rows[i], ClauseAction(i - 1, rows[i]))])

NumberLits == {ANumber(i) : i \in 1..MaxNum}
PairLits == {ATuple(<<ANumber(1), ANumber(1)>>), ATuple(<<ANumber(1), ANumber(2)>>)}
ScrutineeLits ==
  NumberLits \cup {AAtom("ok"), AString("oi")} \cup PairLits
    \cup {ATuple(<<ANumber(1)>>),
          ATuple(<<ATuple(<<ANumber(1), ANumber(2)>>), ANumber(2)>>)}

CasePatterns ==
  {PWildcard, PVariable("x"), PAtom("ok"), PString("oi")}
    \cup {PNumber(i) : i \in 1..MaxNum}
    \cup {PTuple(<<PNumber(1), PNumber(1)>>), PTuple(<<PNumber(1), PVariable("x")>>),
          PTuple(<<PWildcard, PNumber(1)>>),
          PTuple(<<PNumber(1)>>),
          PTuple(<<PVariable("y"), PVariable("x")>>),
          PTuple(<<PTuple(<<PNumber(1), PVariable("x")>>), PNumber(2)>>)}

\* the sequences over S of length 1..n
SeqsUpTo(S, n) == UNION {[1..k -> S] : k \in 1..n}

\* a `case` over one literal scrutinee
OneScrutineePrograms ==
  {CaseOf(<<v>>, [i \in 1..Len(ps) |-> <<ps[i]>>]) :
     v \in ScrutineeLits, ps \in SeqsUpTo(CasePatterns, MaxClauses)}

FirstColumnPatterns == {PVariable("x"), PNumber(1), PTuple(<<PNumber(1)>>)}
SecondColumnPatterns == {PWildcard, PNumber(1), PTuple(<<PNumber(1)>>)}
ColumnLits == {ANumber(1), ANumber(2), ATuple(<<ANumber(1)>>)}

\* a `case` over two literal scrutinees
TwoScrutineePrograms ==
  {CaseOf(<<v, w>>, rows) :
     v \in ColumnLits, w \in ColumnLits,
     rows \in SeqsUpTo({<<p, q>> : p \in FirstColumnPatterns, q \in SecondColumnPatterns},
                       MaxClauses)}

\* let x = {1, 99} in case x of {1, 1} -> 42; {1, x} -> x; "oi" -> "tchau"; _ -> 69 end
\* (test_compile, commented out), over several values of x
ExamplePrograms ==
  {ALet("x", v,
        AMatch(<<AVariable("x")>>,
               <<Arm(<<PTuple(<<PNumber(1), PNumber(1)>>)>>, ANumber(42)),
                 Arm(<<PTuple(<<PNumber(1), PVariable("x")>>)>>, AVariable("x")),
                 Arm(<<PString("oi")>>, AString("tchau")),
                 Arm(<<PWildcard>>, ANumber(69))>>)) :
     v \in {ATuple(<<ANumber(1), ANumber(99)>>), ATuple(<<ANumber(1), ANumber(1)>>),
            AString("oi"), ANumber(5)}}

PList(elements) == [k |-> "List", n |-> 0, s |-> "", elements |-> elements]

\* case [1, 2] of [2, 3] -> 4; _ -> 0 end (test_compile)
ListProgram ==
  AMatch(<<AList(<<ANumber(1), ANumber(2)>>)>>,
         <<Arm(<<PList(<<PNumber(2), PNumber(3)>>)>>, ANumber(4)),
           Arm(<<PWildcard>>, ANumber(0))>>)

TupleElementLits ==
  {ANumber(1), ANumber(2), ANumber(3), AAtom("ok"), AString("oi"),
   ATuple(<<ANumber(1), ANumber(2)>>)}

\* a tuple literal as the whole body
TuplePrograms == {ATuple(es) : es \in UNION {[1..k -> TupleElementLits] : k \in 0..MaxTuple}}

\* if c then t else e, alone and around a `case`
IfPrograms ==
  {AIf(c, th, el) :
     c \in {AAtom("true"), AAtom("false"), ANumber(1),
            AMatch(<<ANumber(2)>>, <<Arm(<<PNumber(1)>>, AAtom("true")),
                                     Arm(<<PWildcard>>, AAtom("false"))>>)},
     th \in {ANumber(1), ATuple(<<ANumber(1), ANumber(2)>>)},
     el \in {ANumber(2), AAtom("ok")}}

\* a `case` in a clause body, in a let value, and an `if` in a clause body
NestedPrograms ==
  {AMatch(<<ATuple(<<ANumber(1), v>>)>>,
          <<Arm(<<PTuple(<<PNumber(1), PVariable("x")>>)>>,
                AMatch(<<AVariable("x")>>, <<Arm(<<PNumber(2)>>, ANumber(7)),
                                             Arm(<<PWildcard>>, ANumber(8))>>)),
            Arm(<<PWildcard>>, ANumber(9))>>) : v \in NumberLits}
    \cup
  {ALet("y", AMatch(<<v>>, <<Arm(<<PNumber(1)>>, ANumber(5)), Arm(<<PWildcard>>, ANumber(6))>>),
        ATuple(<<AVariable("y"), AVariable("y")>>)) : v \in NumberLits}
    \cup
  {AMatch(<<v>>, <<Arm(<<PNumber(1)>>, AIf(AAtom("true"), ANumber(3), ANumber(4))),
                   Arm(<<PWildcard>>, ANumber(5))>>) : v \in NumberLits}

\* a `case` over variables whose patterns bind the scrutinees' own names:
\* let x = {1, 2} in case x of {y, x} -> {0, x, y} end, and
\* let x = 1 in let y = 2 in case x, y of y, x -> {0, x, y} end
ShadowPrograms ==
  {ALet("x", ATuple(<<ANumber(1), ANumber(2)>>), CaseOf(<<AVariable("x")>>, <<<<p>>>>)) :
     p \in {PTuple(<<PVariable("y"), PVariable("x")>>),
            PTuple(<<PVariable("x"), PVariable("y")>>),
            PTuple(<<PWildcard, PVariable("x")>>)}}
    \cup
  {ALet("x", ANumber(1), ALet("y", ANumber(2), CaseOf(<<AVariable("x"), AVariable("y")>>, <<row>>))) :
     row \in {<<PVariable("y"), PVariable("x")>>, <<PVariable("x"), PVariable("y")>>,
              <<PVariable("z"), PVariable("x")>>}}

\* case v, w of 1, 1 -> 0; x, {y} -> {1, x, y} end: a pattern variable inside a
\* tuple pattern of the second scrutinee
SecondTuplePrograms ==
  {CaseOf(<<v, w>>, << <<PNumber(1), PNumber(1)>>,
                       <<PVariable("x"), PTuple(<<PVariable("y")>>)>> >>) :
     v \in ColumnLits, w \in ColumnLits}

Programs ==
  OneScrutineePrograms \cup TwoScrutineePrograms \cup ExamplePrograms
    \cup {ListProgram} \cup TuplePrograms \cup IfPrograms \cup NestedPrograms
    \cup ShadowPrograms \cup SecondTuplePrograms

\* the desugaring of ListProgram: list patterns are tested with Cons and Nil at
\* the occurrence and projected with Head and Tail; the scrutinee is bound to a_1
ListProgramDesugared ==
  LET a == EVariable("a_1")
      O(path) == Occurrence(a, path)
      other == Leaf(1)
  IN ELet("a_1", desugar(ListProgram.scrutinee[1], "asc"),
       EMatch(
         Switch(O(<<>>),
           <<<<CondCons,
               Switch(O(<<AccHead>>),
                 <<<<CondNumber(2),
                     Switch(O(<<AccTail>>),
                       <<<<CondCons,
                           Switch(O(<<AccTail, AccHead>>),
                             <<<<CondNumber(3),
                                 Switch(O(<<AccTail, AccTail>>),
                                        <<<<CondNil, Leaf(0)>>>>, other)>>>>,
                             other)>>>>,
                       other)>>>>,
                 other)>>>>,
           other),
         <<ENumber(4), ENumber(0)>>))

VARIABLES
  pc,          \* the stage of the pipeline, then how the machine stopped
  ast,         \* the parsed expression
  hash_order,  \* the iteration order of this process's HashMaps
  expr,        \* the desugared expression
  info,        \* the BytecodeInfo of the compiled unit
  ip,          \* Machine::ip
  stack,       \* the operand stack
  locals,      \* the locals array
  pool,        \* the Ctx of a unit whose constants are being requested
  issued,      \* the make_constant calls answered so far: constant and returned id
  last_request, \* the constant of the latest make_constant call
  program,     \* the parsed definitions of the file given to main
  drv_pc,      \* where main is
  drv_error,   \* the error main exits with
  env,         \* the Env of the REPL
  input,       \* the expression parsed from the latest line
  result,      \* what evaluating it returned
  walk,        \* what the tree-walking evaluator made of the desugared expression
  node,        \* the arguments of the current call of gen_case_tree
  parent,      \* the arguments (after the swaps) of the call that made it
  via,         \* the discriminator, or the default, that call made it for
  subtree      \* the tree the current call returns

vmVars == <<pc, ast, hash_order, expr, info, ip, stack, locals>>
poolVars == <<pool, issued, last_request>>
driverVars == <<program, drv_pc, drv_error, env, input, result>>
walkVars == <<walk>>
genVars == <<node, parent, via, subtree>>
vars == <<vmVars, poolVars, driverVars, walkVars, genVars>>

NoInfo == [bytecode |-> <<>>, locals |-> 0, constants |-> Pool(0, <<>>)]

\* Machine::load_constant
load_constant(id) == ConstantValue(PoolKeyAt(info.constants, id))

\* Machine::fetch: the instruction at ip; an ip past the code panics
Fetched ==
  IF ip < Len(info.bytecode) THEN info.bytecode[ip + 1] ELSE Ins("OutOfBounds", 0, 0)

Running(op) == pc = "running" /\ Fetched.op = op

Halt(how) ==
  /\ pc' = how
  /\ ip' = ip + 1
  /\ UNCHANGED <<ast, hash_order, expr, info, stack, locals, poolVars, driverVars, walkVars, genVars>>

\* the machine goes on with a new stack, at the next instruction or at a target
Go(next_ip, new_stack) ==
  /\ ip' = next_ip
  /\ stack' = new_stack
  /\ UNCHANGED <<pc, ast, hash_order, expr, info, locals, poolVars, driverVars, walkVars, genVars>>

\* <ast::Expression as Desugar>::desugar of the parsed expression
Desugar ==
  /\ pc = "parsed"
  /\ ast # ListProgram
  /\ expr' = desugar(ast, hash_order)
  /\ pc' = "desugared"
  /\ UNCHANGED <<ast, hash_order, info, ip, stack, locals, poolVars, driverVars, walkVars, genVars>>

\* test_compile: ctx.fn_clause(expr), ctx.bytecode(), Machine::new and the locals
\* array of info.locals + 1 default values
Compile ==
  /\ pc = "desugared"
  /\ LET ctx == fn_clause(NewCtx, expr) IN
     IF ctx.panic # ""
       THEN /\ pc' = "compile_panic"
            /\ UNCHANGED <<info, ip, stack, locals>>
       ELSE /\ pc' = "running"
            /\ info' = bytecode(ctx)
            /\ ip' = 0
            /\ stack' = <<>>
            /\ locals' = [i \in 1..(Len(ctx.locals) + 1) |-> ValueDefault]
  /\ UNCHANGED <<ast, hash_order, expr, poolVars, driverVars, walkVars, genVars>>

\* Machine::run, Bytecode::Return
StepReturn == Running("Return") /\ Halt("returned")

\* Bytecode::PushNumber
StepPushNumber == Running("PushNumber") /\ Go(ip + 1, Append(stack, VNumber(Fetched.a)))

\* Bytecode::LoadConstant
StepLoadConstant ==
  /\ Running("LoadConstant")
  /\ IF Fetched.a < PoolLen(info.constants)
       THEN Go(ip + 1, Append(stack, load_constant(Fetched.a)))
       ELSE Halt("panic")

\* Bytecode::GetLocal
StepGetLocal ==
  /\ Running("GetLocal")
  /\ IF Fetched.a < Len(locals)
       THEN Go(ip + 1, Append(stack, locals[Fetched.a + 1]))
       ELSE Halt("panic")

\* Bytecode::SetLocal
StepSetLocal ==
  /\ Running("SetLocal")
  /\ IF Len(stack) > 0 /\ Fetched.a < Len(locals)
       THEN /\ locals' = [locals EXCEPT ![Fetched.a + 1] = Top(stack)]
            /\ stack' = Pop(stack)
            /\ ip' = ip + 1
            /\ UNCHANGED <<pc, ast, hash_order, expr, info, poolVars, driverVars, walkVars, genVars>>
       ELSE Halt("panic")

\* Bytecode::TestExact
StepTestExact ==
  /\ Running("TestExact")
  /\ IF Len(stack) > 0 /\ Fetched.a < PoolLen(info.constants)
       THEN IF TestExactMatches(Top(stack), load_constant(Fetched.a))
              THEN Go(ip + 1, Pop(stack))
              ELSE Go(Fetched.b, Pop(stack))
       ELSE Halt("panic")

\* Bytecode::TestTuple
StepTestTuple ==
  /\ Running("TestTuple")
  /\ IF Len(stack) > 0
       THEN IF TestTupleMatches(Top(stack), Fetched.a)
              THEN Go(ip + 1, Pop(stack))
              ELSE Go(Fetched.b, Pop(stack))
       ELSE Halt("panic")

\* Bytecode::MakeTuple
StepMakeTuple ==
  /\ Running("MakeTuple")
  /\ IF Len(stack) >= Fetched.a
       THEN Go(ip + 1,
               Append(SubSeq(stack, 1, Len(stack) - Fetched.a),
                      VTuple(MakeTupleElements(stack, Fetched.a, <<>>))))
       ELSE Halt("panic")

\* Bytecode::GetTuple
StepGetTuple ==
  /\ Running("GetTuple")
  /\ IF Len(stack) > 0 /\ Top(stack).k = "Tuple" /\ Fetched.a < Len(Top(stack).elements)
       THEN Go(ip + 1, Append(Pop(stack), Top(stack).elements[Fetched.a + 1]))
       ELSE Halt("panic")

\* Bytecode::Jump
StepJump == Running("Jump") /\ Go(Fetched.a, stack)

\* Bytecode::MatchFail
StepMatchFail == Running("MatchFail") /\ Halt("matchfail")

\* TestCons, TestNil, GetHd, GetTl and Undefined are todo!(); a fetch past the code
\* is an index panic
StepTodo ==
  /\ pc = "running"
  /\ Fetched.op \in {"TestCons", "TestNil", "GetHd", "GetTl", "Undefined", "OutOfBounds"}
  /\ Halt("panic")

\* the desugaring of a `case` with a list pattern
DesugarList ==
  /\ pc = "parsed"
  /\ ast = ListProgram
  /\ expr' = ListProgramDesugared
  /\ pc' = "desugared"
  /\ UNCHANGED <<ast, hash_order, info, ip, stack, locals, poolVars, driverVars, walkVars, genVars>>

NoEnv == Env(EmptyMap, EmptyMap)
NoResult == [kind |-> "None", v |-> NoExpr, idx |-> 0, err |-> ""]

\* main is not run by the specifications of the machine and of the pool
\* a gen_case_tree call: its matrix, action indices and occurrences
Problem(matrix, actions, occurrences) ==
  [matrix |-> matrix, actions |-> actions, occurrences |-> occurrences]
NoProblem == Problem(<<>>, <<>>, <<>>)
NoWalk == [done |-> FALSE, result |-> NoResult, failure_reached |-> FALSE]

\* the tree-walker and the tree generator are not run
WalkIdle == walk = NoWalk
\* how a gen_case_tree call was reached: "root" (Tree::compile), "case" (the
\* branch of a head) or "default" (the default case)
Via(kind, case) == [kind |-> kind, case |-> case]
GenIdle ==
  /\ node = NoProblem
  /\ parent = NoProblem
  /\ via = Via("idle", CondNil)
  /\ subtree = Failure

DriverIdle ==
  /\ program = <<>>
  /\ drv_pc = "idle"
  /\ drv_error = NoError
  /\ env = NoEnv
  /\ input = NoExpr
  /\ result = NoResult

RECURSIVE NeedsOrder(_)
\* some pattern of the program's `case` binds several names
NeedsOrder(x) ==
  \/ x.a = "Let" /\ NeedsOrder(x.next)
  \/ /\ x.a = "Match"
     /\ \E i \in 1..Len(x.arms) : \E j \in 1..Len(x.arms[i].lhs) :
          Cardinality(PatVars(x.arms[i].lhs[j])) > 1

Init ==
  /\ pc = "parsed"
  /\ ast \in Programs
  /\ hash_order \in (IF NeedsOrder(ast) THEN {"asc", "desc"} ELSE {"asc"})
  /\ expr = NoExpr
  /\ info = NoInfo
  /\ ip = 0
  /\ stack = <<>>
  /\ locals = <<>>
  /\ pool = NewCtx
  /\ issued = <<>>
  /\ last_request = ConstNumber(0)
  /\ DriverIdle
  /\ WalkIdle
  /\ GenIdle

Next ==
  \/ Desugar
  \/ DesugarList
  \/ Compile
  \/ StepReturn
  \/ StepPushNumber
  \/ StepLoadConstant
  \/ StepGetLocal
  \/ StepSetLocal
  \/ StepTestExact
  \/ StepTestTuple
  \/ StepMakeTuple
  \/ StepGetTuple
  \/ StepJump
  \/ StepMatchFail
  \/ StepTodo

Spec == Init /\ [][Next]_vars

(***************************************************************************)
(* Reference semantics of literals and patterns, for the properties.       *)
(***************************************************************************)
RECURSIVE LitValue(_)
\* the value a literal expression denotes
LitValue(x) ==
  CASE x.a = "Number" -> VNumber(x.n)
    [] x.a = "Atom" -> VAtom(x.s)
    [] x.a = "String" -> VString(x.s)
    [] x.a = "Tuple" -> VTuple([i \in 1..Len(x.elements) |-> LitValue(x.elements[i])])

RECURSIVE Matches(_, _)
\* pattern p matches value v
Matches(p, v) ==
  CASE p.k \in {"Wildcard", "Variable"} -> TRUE
    [] p.k = "Number" -> v.k = "Number" /\ v.n = p.n
    [] p.k = "String" -> v.k = "String" /\ v.s = p.s
    [] p.k = "Atom" -> v.k = "Atom" /\ v.s = p.s
    [] p.k = "Tuple" ->
         /\ v.k = "Tuple"
         /\ Len(v.elements) = Len(p.elements)
         /\ \A i \in 1..Len(p.elements) : Matches(p.elements[i], v.elements[i])

SimpleArms(arms) ==
  \A i \in 1..Len(arms) : arms[i].rhs.a \in {"Number", "String", "Tuple", "Variable"}

\* the program is a `case` over literals (directly, or of a let-bound variable)
\* whose clause bodies are literals and variables
IsCaseProgram(x) ==
  \/ x.a = "Match" /\ x # ListProgram /\ SimpleArms(x.arms)
  \/ x.a = "Let" /\ x.next.a = "Match" /\ SimpleArms(x.next.arms)

CaseArms(x) == IF x.a = "Match" THEN x.arms ELSE x.next.arms
CaseValues(x) ==
  IF x.a = "Match" THEN [j \in 1..Len(x.scrutinee) |-> LitValue(x.scrutinee[j])]
  ELSE <<LitValue(x.value)>>

\* clause i (1-based) matches the scrutinees
ClauseMatches(x, i) ==
  \A j \in 1..Len(CaseValues(x)) : Matches(CaseArms(x)[i].lhs[j], CaseValues(x)[j])

MatchingClauses(x) == {i \in 1..Len(CaseArms(x)) : ClauseMatches(x, i)}

\* what tells the clauses' results apart: the leading number of the action
ActionMark(rhs) ==
  CASE rhs.a = "Tuple" -> rhs.elements[1].n
    [] rhs.a = "Number" -> rhs.n
    [] rhs.a = "String" -> -2
    [] rhs.a = "Variable" -> 99

ResultMark(v) ==
  CASE v.k = "Tuple" -> IF Len(v.elements) > 0 THEN v.elements[1].n ELSE -1
    [] v.k = "Number" -> v.n
    [] v.k = "String" -> -2
    [] OTHER -> -1

Stopped == pc \in {"returned", "matchfail", "panic", "compile_panic"}

(***************************************************************************)
(* Properties                                                              *)
(***************************************************************************)
\* C1: first-match priority. When a `case` whose scrutinees are matched by at
\* least one clause has been compiled and run, the machine has returned the
\* result of the lowest-index matching clause.
C1_FirstMatchPriority ==
  (Stopped /\ IsCaseProgram(ast) /\ MatchingClauses(ast) # {}) =>
    /\ pc = "returned"
    /\ Len(stack) > 0
    /\ ResultMark(Top(stack)) = ActionMark(CaseArms(ast)[Min(MatchingClauses(ast))].rhs)

\* the last clause has only wildcard and variable patterns
HasCatchAll(x) ==
  LET arms == CaseArms(x) IN
  \A j \in 1..Len(arms[Len(arms)].lhs) : IsBinding(arms[Len(arms)].lhs[j])

\* C2: exhaustiveness. A `case` whose final clause has only wildcard and
\* variable patterns never executes MatchFail.
C2_Exhaustive == (IsCaseProgram(ast) /\ HasCatchAll(ast)) => pc # "matchfail"

\* C3: list mismatch falls to default. Compiling and running
\* `case [1, 2] of [2, 3] -> 4; _ -> 0 end` ends at Return with result 0.
C3_ListMismatchFallsToDefault ==
  (ast = ListProgram /\ Stopped) =>
    (pc = "returned" /\ Len(stack) > 0 /\ Top(stack) = VNumber(0))

\* the unit is compiled and the machine has started
Compiled == pc \in {"running", "returned", "matchfail", "panic"}

\* C4: tuple order preservation. Right after MakeTuple(n) the top of the stack
\* is a tuple of n elements, and a program that is a tuple literal
\* {e0, ..., e(n-1)} returns the tuple whose element i is the value of ei.
C4_TupleOrder ==
  /\ (pc = "running" /\ ip > 0 /\ info.bytecode[ip].op = "MakeTuple") =>
       /\ Len(stack) > 0
       /\ Top(stack).k = "Tuple"
       /\ Len(Top(stack).elements) = info.bytecode[ip].a
  /\ (Stopped /\ ast.a = "Tuple") =>
       /\ pc = "returned"
       /\ Len(stack) > 0
       /\ Top(stack) = LitValue(ast)
       /\ \A i \in 1..Len(ast.elements) : Top(stack).elements[i] = LitValue(ast.elements[i])

\* {1, 2, 3} has been run and read back as 1, 2, 3
C4_Witness ==
  /\ pc = "returned"
  /\ ast = ATuple(<<ANumber(1), ANumber(2), ANumber(3)>>)
  /\ Top(stack).elements = <<VNumber(1), VNumber(2), VNumber(3)>>

IsTest(ins) == ins.op \in {"TestExact", "TestTuple", "TestCons", "TestNil"}

RECURSIVE AllPathsEnd(_, _, _)
\* every control path from index i (0-based) of the code ends at a Return or a
\* MatchFail within `fuel` instructions
AllPathsEnd(code, i, fuel) ==
  IF fuel = 0 \/ i < 0 \/ i >= Len(code) THEN FALSE
  ELSE LET ins == code[i + 1] IN
       CASE ins.op \in {"Return", "MatchFail"} -> TRUE
         [] ins.op = "Jump" -> AllPathsEnd(code, ins.a, fuel - 1)
         [] IsTest(ins) ->
              AllPathsEnd(code, i + 1, fuel - 1) /\ AllPathsEnd(code, ins.b, fuel - 1)
         [] OTHER -> AllPathsEnd(code, i + 1, fuel - 1)

\* C7: branch target soundness. In every compiled unit the target of every test
\* and jump is an index of the unit after the instruction itself (so no
\* placeholder is left), every control path ends at a Return or a MatchFail, and
\* the running machine's ip stays inside the unit.
C7_BranchTargetsSound ==
  Compiled =>
    LET code == info.bytecode IN
    /\ \A i \in 1..Len(code) :
         /\ IsTest(code[i]) => (code[i].b > i - 1 /\ code[i].b < Len(code))
         /\ code[i].op = "Jump" => (code[i].a > i - 1 /\ code[i].a < Len(code))
    /\ AllPathsEnd(code, 0, Len(code))
    /\ pc = "running" => ip < Len(code)

\* a unit with tuple tests, exact tests and several jumps has run to Return
C7_Witness ==
  /\ pc = "returned"
  /\ \E i \in 1..Len(info.bytecode) : info.bytecode[i].op = "TestTuple"
  /\ \E i \in 1..Len(info.bytecode) : info.bytecode[i].op = "TestExact"
  /\ Cardinality({i \in 1..Len(info.bytecode) : info.bytecode[i].op = "Jump"}) > 1
  /\ info.bytecode[ip - 1].op = "Jump"

(***************************************************************************)
(* The tree-walking evaluator on the programs of the machine: the desugared *)
(* expression is evaluated by Env::eval in an Env without definitions, as   *)
(* main does for a line, and then compiled and run.                         *)
(***************************************************************************)
\* env.eval(expr.desugar()) of main's loop, on the expression of the machine
Walk ==
  /\ pc = "desugared"
  /\ ~walk.done
  /\ walk' = [done |-> TRUE, result |-> eval(NoEnv, expr),
              failure_reached |-> FailureReached(NoEnv, expr)]
  /\ UNCHANGED <<vmVars, poolVars, driverVars, genVars>>

\* test_compile on an expression the tree-walker has evaluated
CompileWalked == walk.done /\ Compile

InitCross == Init /\ ast # ListProgram

NextCross ==
  \/ Desugar
  \/ Walk
  \/ CompileWalked
  \/ StepReturn
  \/ StepPushNumber
  \/ StepLoadConstant
  \/ StepGetLocal
  \/ StepSetLocal
  \/ StepTestExact
  \/ StepTestTuple
  \/ StepMakeTuple
  \/ StepGetTuple
  \/ StepJump
  \/ StepMatchFail

\* both evaluators on every program without lists
SpecCross == InitCross /\ [][NextCross]_vars

\* C11: match failure is fatal with no retry. When the tree-walker's evaluation
\* of the tree has evaluated a Failure node, the evaluation of the match has
\* failed (no default or other branch gave an action afterwards); and a machine
\* stopped by MatchFail has just executed MatchFail.
C11_MatchFailureFatal ==
  /\ (walk.done /\ walk.failure_reached) => walk.result.kind = "Err"
  /\ pc = "matchfail" => (ip > 0 /\ info.bytecode[ip].op = "MatchFail")

RECURSIVE ExprValue(_)
\* the machine's Value that is the same datum as a value of the tree-walker
ExprValue(x) ==
  CASE x.e = "Number" -> VNumber(x.n)
    [] x.e = "Atom" -> VAtom(x.s)
    [] x.e = "String" -> VString(x.s)
    [] x.e = "Tuple" -> VTuple([i \in 1..Len(x.elements) |-> ExprValue(x.elements[i])])

\* C12: the two evaluators are interchangeable on matches. For a `case` over
\* literal values with literal and variable clause bodies, when both evaluators
\* have finished either the machine has returned the value the tree-walker
\* returned, or the machine has stopped at MatchFail and the tree-walker has
\* returned the match failure.
C12_EvaluatorsAgree ==
  (Stopped /\ walk.done /\ IsCaseProgram(ast)) =>
    \/ /\ pc = "returned"
       /\ walk.result.kind = "Ok"
       /\ Len(stack) > 0
       /\ Top(stack) = ExprValue(walk.result.v)
    \/ /\ pc = "matchfail"
       /\ walk.result.kind = "Err"
       /\ walk.result.err = "Match failure"

\* C13: the machine terminates normally. A compiled unit started at ip = 0
\* stops only by Return or by MatchFail: the instruction pointer stays inside
\* the instruction sequence while the machine runs, and the machine never
\* stops in any other way (stack underflow, an index past the locals or past a
\* tuple, a non-tuple under GetTuple, an opcode without semantics).
C13_VmTerminates ==
  Compiled =>
    /\ pc # "panic"
    /\ pc = "running" => ip < Len(info.bytecode)

\* C19: accessor safety. Whenever the machine is about to execute GetTuple(i),
\* the value on top of the stack is a tuple with more than i elements: the
\* tests on the path have confirmed the shape the accessor relies on.
C19_AccessorSafety ==
  (pc = "running" /\ Fetched.op = "GetTuple") =>
    /\ Len(stack) > 0
    /\ Top(stack).k = "Tuple"
    /\ Fetched.a < Len(Top(stack).elements)

RECURSIVE TheCase(_)
\* the `case` under the lets of a program
TheCase(x) == IF x.a = "Let" THEN TheCase(x.next) ELSE x

RECURSIVE LetBindings(_)
\* the lets above the `case`, outermost first, as <<name, value>>
LetBindings(x) ==
  IF x.a = "Let" THEN <<<<x.bind, LitValue(x.value)>>>> \o LetBindings(x.next) ELSE <<>>

\* the value of a scrutinee: a literal, or the innermost let of that name
ScrutineeValue(x, s) ==
  IF s.a = "Variable"
    THEN LET lets == LetBindings(x)
             last == CHOOSE i \in 1..Len(lets) :
                       lets[i][1] = s.name /\ \A j \in (i + 1)..Len(lets) : lets[j][1] # s.name
         IN lets[last][2]
    ELSE LitValue(s)

RECURSIVE BoundIn(_, _)
\* the variables of a pattern with the sub-values of a matching value at their
\* positions, as <<name, value>>
BoundIn(p, v) ==
  CASE p.k = "Variable" -> {<<p.s, v>>}
    [] p.k = "Tuple" -> UNION {BoundIn(p.elements[i], v.elements[i]) : i \in 1..Len(p.elements)}
    [] OTHER -> {}

\* the program is lets of literals over a `case` of literals and let-bound
\* variables whose clause i returns {i, its pattern variables by name}
IsBinderProgram(x) ==
  /\ TheCase(x).a = "Match"
  /\ x # ListProgram
  /\ \A i \in 1..Len(TheCase(x).arms) :
       TheCase(x).arms[i].rhs = ClauseAction(i - 1, TheCase(x).arms[i].lhs)
  /\ \A j \in 1..Len(TheCase(x).scrutinee) :
       TheCase(x).scrutinee[j].a \in {"Number", "Atom", "String", "Tuple", "Variable"}

\* clause i of the `case` matches the scrutinees and has pattern variables
BindingClause(x, i) ==
  /\ RowVars(TheCase(x).arms[i].lhs) # {}
  /\ \A j \in 1..Len(TheCase(x).scrutinee) :
       Matches(TheCase(x).arms[i].lhs[j], ScrutineeValue(x, TheCase(x).scrutinee[j]))

\* the value clause i returns when every pattern variable holds the sub-value
\* of its scrutinee
ExpectedOf(x, i) ==
  LET row == TheCase(x).arms[i].lhs
      bound == UNION {BoundIn(row[j], ScrutineeValue(x, TheCase(x).scrutinee[j])) :
                        j \in 1..Len(row)}
      names == NamesBy(RowVars(row), "asc")
      ValueOf(nm) == (CHOOSE b \in bound : b[1] = nm)[2]
  IN VTuple(<<VNumber(i - 1)>> \o [k \in 1..Len(names) |-> ValueOf(names[k])])

\* the value is the result of clause i's action: a tuple led by i - 1
ResultOfClause(v, i) == v.k = "Tuple" /\ Len(v.elements) > 0 /\ v.elements[1] = VNumber(i - 1)

\* C20: binder correctness. When an evaluator returns the value of the action
\* of a clause that matches the scrutinees, every pattern variable of the
\* clause holds the sub-value of the original scrutinee at the variable's
\* position, also when a pattern variable is named like a scrutinee variable.
C20_BindersCorrect ==
  IsBinderProgram(ast) =>
    \A i \in 1..Len(TheCase(ast).arms) :
      BindingClause(ast, i) =>
        /\ (walk.done /\ walk.result.kind = "Ok"
              /\ ResultOfClause(ExprValue(walk.result.v), i)) =>
             ExprValue(walk.result.v) = ExpectedOf(ast, i)
        /\ (pc = "returned" /\ Len(stack) > 0 /\ ResultOfClause(Top(stack), i)) =>
             Top(stack) = ExpectedOf(ast, i)

\* C22: the reported local-slot count covers every slot. In a unit returned by
\* Ctx::bytecode the id of every GetLocal and SetLocal is less than the unit's
\* `locals`, so a locals array of that size is never indexed out of bounds.
C22_LocalsCountCovers ==
  Compiled =>
    \A k \in 1..Len(info.bytecode) :
      info.bytecode[k].op \in {"GetLocal", "SetLocal"} => info.bytecode[k].a < info.locals

\* C25: a compiled `if` selects exactly one branch. When the machine has
\* returned from `if c then t else e` and the tree-walker has evaluated it, the
\* stack holds exactly the value of the branch the tree-walker selected.
C25_IfSelectsOneBranch ==
  (ast.a = "If" /\ pc = "returned" /\ walk.done /\ walk.result.kind = "Ok") =>
    stack = <<ExprValue(walk.result.v)>>

\* the number of values an instruction pops
Pops(ins) ==
  CASE ins.op \in {"SetLocal", "TestExact", "TestTuple", "GetTuple"} -> 1
    [] ins.op = "MakeTuple" -> ins.a
    [] OTHER -> 0

\* C26: stack discipline. The machine never pops from an empty stack, and when
\* a body started on an empty stack reaches Return the stack holds exactly one
\* value, the result.
C26_StackDiscipline ==
  /\ pc = "running" => Len(stack) >= Pops(Fetched)
  /\ pc = "returned" => Len(stack) = 1

(***************************************************************************)
(* The calls of gen_case_tree made for one `case`: Tree::compile calls it  *)
(* on the clauses' patterns, and every call on a matrix whose first row is *)
(* refutable calls it once for the default case and once per head.         *)
(***************************************************************************)
\* the programs whose trees are generated: a `case` over literals
GenPrograms == OneScrutineePrograms \cup TwoScrutineePrograms

\* Tree::compile: the arguments of its gen_case_tree call for the clauses of a
\* `case`; compile_match names the i-th literal scrutinee a_i
TreeCompileProblem(x) ==
  Problem([i \in 1..Len(x.arms) |->
             [j \in 1..Len(x.arms[i].lhs) |-> pattern_desugar(x.arms[i].lhs[j])]],
          [i \in 1..Len(x.arms) |-> i - 1],
          [j \in 1..Len(x.scrutinee) |-> Occurrence(EVariable(GenScrutineeName(j)), <<>>)])

TreeOf(p) == gen_case_tree(p.matrix, p.actions, p.occurrences)

\* gen_case_tree takes its third arm: the matrix has a row and the first row
\* is refutable
IsSwitchNode(p) == Len(p.matrix) > 0 /\ ~is_irrefutable(p.matrix[1])

\* the matrix, actions and occurrences after the three swaps of gen_case_tree
Swapped(p) ==
  Problem(swap_matrix(p.matrix, find_refutable(p.matrix)),
          swap_actions(p.actions, find_refutable(p.matrix)),
          swap_occurrences(p.occurrences, find_refutable(p.matrix)))

InitGen ==
  /\ pc = "gen"
  /\ ast \in GenPrograms
  /\ hash_order = "asc"
  /\ expr = NoExpr
  /\ info = NoInfo
  /\ ip = 0
  /\ stack = <<>>
  /\ locals = <<>>
  /\ pool = NewCtx
  /\ issued = <<>>
  /\ last_request = ConstNumber(0)
  /\ DriverIdle
  /\ WalkIdle
  /\ node = TreeCompileProblem(ast)
  /\ parent = NoProblem
  /\ via = Via("root", CondNil)
  /\ subtree = TreeOf(node)

\* gen_case_tree, `for head in heads`: the recursive call on the matrix
\* specialized by one head
GenSpecialize ==
  /\ pc = "gen"
  /\ IsSwitchNode(node)
  /\ \E s \in {Swapped(node)} :
       \E h \in 1..Len(head_cases(s.matrix)) :
         \E sm \in {specialize_matrix(s.matrix, head_cases(s.matrix)[h],
                                      s.actions, s.occurrences)} :
           /\ parent' = s
           /\ via' = Via("case", head_cases(s.matrix)[h])
           /\ node' = Problem(sm.matrix, sm.actions, sm.occurrences)
           /\ subtree' = gen_case_tree(sm.matrix, sm.actions, sm.occurrences)
  /\ UNCHANGED <<vmVars, poolVars, driverVars, walkVars>>

\* gen_case_tree, `let default_case`: the recursive call on the default matrix,
\* with occurrences.clone()
GenDefault ==
  /\ pc = "gen"
  /\ IsSwitchNode(node)
  /\ \E s \in {Swapped(node)} :
       \E dm \in {default_matrix(s.matrix, s.actions)} :
         /\ parent' = s
         /\ via' = Via("default", CondNil)
         /\ node' = Problem(dm.matrix, dm.actions, s.occurrences)
         /\ subtree' = gen_case_tree(dm.matrix, dm.actions, s.occurrences)
  /\ UNCHANGED <<vmVars, poolVars, driverVars, walkVars>>

NextGen == GenSpecialize \/ GenDefault

SpecGen == InitGen /\ [][NextGen]_vars

\* a head pattern is compatible with a discriminator: it binds, or it is the
\* concrete pattern the discriminator stands for
Compatible(pat, case) ==
  \/ pat.k \in {"Wildcard", "Variable"}
  \/ pat.k = "Number" /\ case.c = "Number" /\ pat.n = case.n
  \/ pat.k = "String" /\ case.c = "String" /\ pat.s = case.s
  \/ pat.k = "Atom" /\ case.c = "Atom" /\ pat.s = case.s
  \/ pat.k = "Tuple" /\ case.c = "Tuple" /\ Len(pat.elements) = case.n

\* the number of fields of a discriminator
Fields(case) == IF case.c = "Tuple" THEN case.n ELSE 0

\* C14: wildcard rows survive specialization. In a matrix specialized on a
\* discriminator the rows kept are exactly the compatible rows of the parent,
\* in their order and with their action indices, and a row whose head is a
\* wildcard or a variable is kept with one wildcard per field of the
\* discriminator in place of its head.
C14_WildcardRowsSurvive ==
  via.kind = "case" =>
    LET kept == AscSeq({i \in 1..Len(parent.matrix) :
                          Compatible(parent.matrix[i][1], via.case)})
    IN /\ node.actions = [x \in 1..Len(kept) |-> parent.actions[kept[x]]]
       /\ Len(node.matrix) = Len(kept)
       /\ \A x \in 1..Len(kept) :
            parent.matrix[kept[x]][1].k \in {"Wildcard", "Variable"} =>
              node.matrix[x] = [f \in 1..Fields(via.case) |-> PWildcard]
                                 \o Rest(parent.matrix[kept[x]])

\* the row of the parent matrix that a row of the sub-matrix was made from
ParentRow(x) == parent.matrix[CHOOSE i \in 1..Len(parent.matrix) :
                                parent.actions[i] = node.actions[x]]

\* C15: specialization keeps patterns paired with their occurrences. After a
\* specialization on Tuple(n) at occurrence o the occurrences are o.0 .. o.(n-1)
\* followed by the other occurrences, and every row made from a tuple pattern
\* is that tuple's n element patterns followed by the row's other patterns.
C15_PatternsPairedWithOccurrences ==
  (via.kind = "case" /\ via.case.c = "Tuple") =>
    /\ node.occurrences =
         [k \in 1..via.case.n |->
            Occurrence(parent.occurrences[1].root,
                       Append(parent.occurrences[1].path, AccTup(k - 1)))]
           \o Rest(parent.occurrences)
    /\ \A x \in 1..Len(node.matrix) :
         /\ Len(node.matrix[x]) = Len(node.occurrences)
         /\ ParentRow(x)[1].k = "Tuple" =>
              node.matrix[x] = ParentRow(x)[1].elements \o Rest(ParentRow(x))

\* C16: the default subtree drops the tested case. The default call gets
\* exactly the rows with a wildcard or variable head, in order, with their
\* action indices and without the head, and the occurrences without the first:
\* every row is as long as the occurrences.
C16_DefaultDropsTestedCase ==
  via.kind = "default" =>
    LET kept == AscSeq({i \in 1..Len(parent.matrix) :
                          parent.matrix[i][1].k \in {"Wildcard", "Variable"}})
    IN /\ node.matrix = [x \in 1..Len(kept) |-> Rest(parent.matrix[kept[x]])]
       /\ node.actions = [x \in 1..Len(kept) |-> parent.actions[kept[x]]]
       /\ node.occurrences = Rest(parent.occurrences)
       /\ \A x \in 1..Len(node.matrix) : Len(node.matrix[x]) = Len(node.occurrences)

RECURSIVE NoEmptySwitch(_)
\* no Switch of a tree, at any depth, has an empty branch list
NoEmptySwitch(tree) ==
  tree.t = "Switch" =>
    /\ Len(tree.branches) > 0
    /\ \A b \in 1..Len(tree.branches) : NoEmptySwitch(tree.branches[b][2])
    /\ NoEmptySwitch(tree.default)

\* C17: no empty Switch. The tree returned by a gen_case_tree call has no
\* Switch with an empty branch list at any depth.
C17_NoEmptySwitch == NoEmptySwitch(subtree)

\* the place of a discriminator in the canonical order: numbers, strings,
\* atoms, tuple sizes; within a kind by value
KindPlace(c) == CASE c.c = "Number" -> 1
                  [] c.c = "String" -> 2
                  [] c.c = "Atom" -> 3
                  [] c.c = "Tuple" -> 4
                  [] OTHER -> 5

Before(a, b) ==
  \/ KindPlace(a) < KindPlace(b)
  \/ /\ KindPlace(a) = KindPlace(b)
     /\ \/ a.n < b.n
        \/ a.n = b.n /\ StrRank(a.s) < StrRank(b.s)

\* the values a Switch is asked about
GenValues == {LitValue(v) : v \in ScrutineeLits \cup ColumnLits}

\* the test of a branch succeeds on a value
BranchMatches(c, v) ==
  \/ c.c = "Number" /\ v.k = "Number" /\ v.n = c.n
  \/ c.c = "String" /\ v.k = "String" /\ v.s = c.s
  \/ c.c = "Atom" /\ v.k = "Atom" /\ v.s = c.s
  \/ c.c = "Tuple" /\ v.k = "Tuple" /\ Len(v.elements) = c.n

RECURSIVE BranchesExclusive(_)
\* in every Switch of a tree the discriminators ascend strictly in the
\* canonical order, and no value passes the test of two branches
BranchesExclusive(tree) ==
  tree.t = "Switch" =>
    /\ \A a, b \in 1..Len(tree.branches) :
         a < b => Before(tree.branches[a][1], tree.branches[b][1])
    /\ \A v \in GenValues :
         Cardinality({b \in 1..Len(tree.branches) : BranchMatches(tree.branches[b][1], v)}) <= 1
    /\ \A b \in 1..Len(tree.branches) : BranchesExclusive(tree.branches[b][2])
    /\ BranchesExclusive(tree.default)

IsConcrete(pat) == pat.k \in {"Number", "String", "Atom", "Tuple"}

\* C18: mutually exclusive branches. In every Switch of the tree of a
\* gen_case_tree call the discriminators are pairwise distinct and ascend in
\* the canonical order (numbers, strings, atoms, tuple sizes), so that at most
\* one branch matches a value; the discriminators of the call's own Switch are
\* those of the concrete heads of the first column, whatever the order of the
\* rows.
C18_BranchesExclusive ==
  /\ BranchesExclusive(subtree)
  /\ IsSwitchNode(node) =>
       /\ subtree.t = "Switch"
       /\ \A b \in 1..Len(subtree.branches) :
            \E r \in 1..Len(node.matrix) :
              /\ IsConcrete(node.matrix[r][1])
              /\ Compatible(node.matrix[r][1], subtree.branches[b][1])
       /\ \A r \in 1..Len(node.matrix) :
            IsConcrete(node.matrix[r][1]) =>
              \E b \in 1..Len(subtree.branches) :
                Compatible(node.matrix[r][1], subtree.branches[b][1])

\* C18, witness: a call made for a branch on a matrix of two rows whose heads
\* are in descending order, and the Switch made from them has the second
\* row's discriminator first
C18_Witness ==
  /\ via.kind = "case"
  /\ subtree.t = "Switch"
  /\ Len(node.matrix) = 2
  /\ IsConcrete(node.matrix[1][1])
  /\ IsConcrete(node.matrix[2][1])
  /\ Len(subtree.branches) = 2
  /\ Compatible(node.matrix[2][1], subtree.branches[1][1])
  /\ Compatible(node.matrix[1][1], subtree.branches[2][1])
  /\ ~Compatible(node.matrix[1][1], subtree.branches[1][1])

(***************************************************************************)
(* The constant pool of one unit under a sequence of make_constant calls.  *)
(***************************************************************************)
PoolConstants ==
  {ConstNumber(i) : i \in 0..MaxNum}
    \cup {ConstAtom("ok"), ConstString("ok"), ConstAtom("oi")}

\* the machine is not used by the pool specifications
VmIdle ==
  /\ pc = "idle"
  /\ ast = ANumber(0)
  /\ hash_order = "asc"
  /\ expr = NoExpr
  /\ info = NoInfo
  /\ ip = 0
  /\ stack = <<>>
  /\ locals = <<>>
  /\ WalkIdle
  /\ GenIdle

InitPool ==
  /\ VmIdle
  /\ DriverIdle
  /\ pool = NewCtx
  /\ issued = <<>>
  /\ last_request = ConstNumber(0)

\* a unit that has already compiled the number constants 0 .. U16_MAX - 3 or more
InitPoolFull ==
  /\ VmIdle
  /\ DriverIdle
  /\ \E n \in (U16_MAX - 2)..U16_MAX : pool = [NewCtx EXCEPT !.constants = Pool(n, <<>>)]
  /\ issued = <<>>
  /\ last_request = ConstNumber(0)

\* one call of Ctx::make_constant by the compiler of the unit
MakeConstant ==
  \E c \in PoolConstants :
    /\ pool.panic = ""
    /\ Len(issued) < MaxRequests
    /\ LET r == make_constant(pool, c) IN
       /\ pool' = r.ctx
       /\ issued' = IF r.ctx.panic = "" THEN Append(issued, [constant |-> c, id |-> r.id])
                    ELSE issued
    /\ last_request' = c
    /\ UNCHANGED <<vmVars, driverVars, walkVars, genVars>>

SpecPool == InitPool /\ [][MakeConstant]_vars

SpecPoolFull == InitPoolFull /\ [][MakeConstant]_vars

\* C5: constant dedup. The pool holds exactly one entry per distinct requested
\* constant, with pairwise different ids; equal requests were answered with the
\* same id and different requests (an Atom and a String of the same text too)
\* with different ids.
C5_ConstantDedup ==
  LET es == pool.constants.entries IN
  /\ \A i \in 1..Len(es) : \A j \in 1..Len(es) :
       i # j => (es[i].key # es[j].key /\ es[i].id # es[j].id)
  /\ {es[i].key : i \in 1..Len(es)} = {issued[i].constant : i \in 1..Len(issued)}
  /\ \A i \in 1..Len(issued) : \A j \in 1..Len(issued) :
       (issued[i].constant = issued[j].constant) <=> (issued[i].id = issued[j].id)
  /\ \A i \in 1..Len(issued) : PoolId(pool.constants, issued[i].constant) = issued[i].id

\* atom ok was requested twice and string "ok" once: two entries, two ids
C5_Witness ==
  /\ Len(pool.constants.entries) = 2
  /\ \E i \in 1..Len(issued) : \E j \in 1..Len(issued) : \E k \in 1..Len(issued) :
       /\ i < j
       /\ issued[i].constant = ConstAtom("ok")
       /\ issued[j].constant = ConstAtom("ok")
       /\ issued[k].constant = ConstString("ok")

\* the number of distinct constants the unit has asked for
NeededConstants ==
  PoolLen(pool.constants)
    + (IF pool.panic # "" /\ ~PoolHas(pool.constants, last_request) THEN 1 ELSE 0)

\* C8: constant pool overflow. The compilation aborts exactly when the unit
\* needs more than 65536 distinct constants, and never on the request of a
\* constant that is already in the pool.
C8_OverflowExactly ==
  /\ (pool.panic # "") <=> (NeededConstants > U16_MAX + 1)
  /\ (pool.panic # "") => ~PoolHas(pool.constants, last_request)

(***************************************************************************)
(* The local slots of one function under a sequence of make_local calls.   *)
(***************************************************************************)
\* the names the compiler asks slots for: let binders, generated scrutinee names
LocalNames == {"x", "y", "a_1"}

\* one call of Ctx::make_local by the compiler of the function (a parameter in
\* fn_definition, the binder of a Let in compile_expr)
MakeLocal ==
  \E name \in LocalNames :
    /\ Len(issued) < MaxRequests
    /\ \E r \in {make_local(pool, name)} :
         /\ pool' = r.ctx
         /\ issued' = Append(issued, [name |-> name, id |-> r.id])
    /\ UNCHANGED <<last_request, vmVars, driverVars, walkVars, genVars>>

SpecLocals == InitPool /\ [][MakeLocal]_vars

\* C21: local slots are never reused. After any sequence of make_local calls
\* no two different names of the function are mapped to the same slot.
C21_SlotsNeverShared ==
  \A i, j \in 1..Len(pool.locals) :
    pool.locals[i].name # pool.locals[j].name => pool.locals[i].id # pool.locals[j].id

(***************************************************************************)
(* main.rs: the driver. The file's definitions are desugared, an Env is    *)
(* built from them, and each line of the REPL is desugared and evaluated.  *)
(***************************************************************************)
\* the names of the definitions of a generated file, by position
DefNames == <<"f", "g", "h">>
\* the variables of the last clause of a generated definition, by position
ParamNames == <<"x", "y", "z">>

\* the definition `name` whose clauses have arities[c] parameter patterns: the
\* last clause binds variables and returns the first, the others match on 1
DefOf(name, arities) ==
  AFnDefinition(name,
    [c \in 1..Len(arities) |->
       IF c = Len(arities) /\ arities[c] > 0
         THEN FnClause([j \in 1..arities[c] |-> PVariable(ParamNames[j])], AVariable("x"))
         ELSE FnClause([j \in 1..arities[c] |-> PNumber(1)], ANumber(c))])

\* the numbers of patterns of the clauses of a definition
ClauseArities == UNION {[1..k -> 0..MaxArity] : k \in 1..MaxFnClauses}
\* those of the definitions of a file of several definitions
FewClauseArities == {<<1>>, <<2, 2>>, <<1, 2>>}

\* the files given to main: no definition, any one definition f, or up to MaxDefs
\* definitions f, g, ...
DriverPrograms ==
  {<<>>}
    \cup {<<DefOf("f", shape)>> : shape \in ClauseArities}
    \cup UNION {{[i \in 1..n |-> DefOf(DefNames[i], shapes[i])] :
                   shapes \in [1..n -> FewClauseArities]} : n \in 2..MaxDefs}

\* the clause lists of a definition have one length
Uniform(def) ==
  \A c \in 1..Len(def.clauses) : Len(def.clauses[c].patterns) = Len(def.clauses[1].patterns)

\* the files all of whose definitions desugar
EvalPrograms == {p \in DriverPrograms : Len(p) > 0 /\ \A i \in 1..Len(p) : Uniform(p[i])}

\* the lines typed at the REPL of a file of any kind: calls of its functions
CallInputs ==
  {ACall(AVariable(DefNames[i]), args) :
     i \in 1..MaxDefs, args \in {<<>>, <<ANumber(1)>>, <<ANumber(2), ANumber(1)>>}}
    \cup {ANumber(1)}

\* the lines typed at the REPL of a file that desugars; y is not bound
ReplAtoms == {ANumber(1), AAtom("true"), AVariable("y")}
ReplInputs ==
  ReplAtoms
    \cup {ATuple(<<a, b>>) : a, b \in ReplAtoms}
    \cup {ALet("y", a, b) : a, b \in ReplAtoms}
    \cup {ABinary(op, a, b) : op \in {"Add", "Equal"}, a, b \in ReplAtoms}
    \cup {ACall(AVariable("f"), <<a>>) : a \in ReplAtoms}
    \cup {ACall(AVariable("g"), <<a, b>>) : a, b \in ReplAtoms}
    \cup {AIf(a, b, ANumber(2)) : a, b \in ReplAtoms}
    \cup {ATuple(<<ATuple(<<AVariable("y"), ANumber(1)>>), ANumber(2)>>),
          ATuple(<<ABinary("Add", AVariable("y"), ANumber(1))>>),
          ABinary("Div", ANumber(1), ANumber(0)),
          ABinary("Div", ANumber(2), ANumber(1)),
          ABinary("Sub", ANumber(1), ANumber(2)),
          ABinary("Mul", ANumber(2), ANumber(2)),
          ACall(ANumber(1), <<ANumber(1)>>),
          ACall(AVariable("k"), <<ANumber(1)>>),
          ACall(AVariable("f"), <<ANumber(1), AVariable("y")>>)}

\* main, lines 34-36: program.desugar().map_err(..)? and Env::from_program
DesugarProgram ==
  /\ drv_pc = "parsed"
  /\ \E r \in {program_desugar(program, hash_order, EmptyMap)} :
     IF r.ok
       THEN /\ drv_pc' = "repl"
            /\ env' = from_program(r.definitions)
            /\ UNCHANGED drv_error
       ELSE /\ drv_pc' = "exit_error"
            /\ drv_error' = r.err
            /\ UNCHANGED env
  /\ UNCHANGED <<program, input, result, vmVars, poolVars, walkVars, genVars>>

\* main, lines 37-48: one turn of the loop on a line that parses to `line`
ReplEval(lines) ==
  \E line \in lines :
    /\ drv_pc = "repl"
    /\ input' = line
    /\ result' = eval(env, desugar(line, hash_order))
    /\ drv_pc' = IF result'.kind = "Panic" THEN "panicked" ELSE "repl"
    /\ UNCHANGED <<program, drv_error, env, vmVars, poolVars, walkVars, genVars>>

ReplCall == ReplEval(CallInputs)
ReplLine == ReplEval(ReplInputs)

DriverStart ==
  /\ VmIdle
  /\ pool = NewCtx
  /\ issued = <<>>
  /\ last_request = ConstNumber(0)
  /\ drv_pc = "parsed"
  /\ drv_error = NoError
  /\ env = NoEnv
  /\ input = NoExpr
  /\ result = NoResult

InitDriver == DriverStart /\ program \in DriverPrograms
InitEval == DriverStart /\ program \in EvalPrograms

\* main on any generated file
SpecDriver == InitDriver /\ [][DesugarProgram \/ ReplCall]_vars
\* main on the files that desugar, with the richer REPL lines
SpecEval == InitEval /\ [][DesugarProgram \/ ReplLine]_vars

\* the definitions of the file whose clauses disagree on the number of patterns
Mismatched == {i \in 1..Len(program) : ~Uniform(program[i])}
\* the number of patterns of the first clause that differs from the first clause
FirstDiffering(def) ==
  LET c == Min({k \in 1..Len(def.clauses) :
                  Len(def.clauses[k].patterns) # Len(def.clauses[1].patterns)})
  IN Len(def.clauses[c].patterns)

\* C6: arity rejection. When the desugaring reaches a definition whose clauses do
\* not all have the same number of patterns, it fails with the error that names
\* the function, the first clause's count as expected and the first differing
\* count as found, and no FnDefinition of it exists: no Env holds a tree for it.
C6_ArityRejection ==
  (drv_pc \notin {"idle", "parsed"} /\ Mismatched # {}) =>
    LET d == program[Min(Mismatched)] IN
      /\ drv_pc = "exit_error"
      /\ drv_error = ArityError(d.name, Len(d.clauses[1].patterns), FirstDiffering(d))
      /\ drv_error.expected # drv_error.got
      /\ d.name \notin DOMAIN env.fn_definitions

\* a definition with clauses of 0, 1 and 2 patterns has been rejected for the 1
C6_Witness ==
  /\ drv_pc = "exit_error"
  /\ program = <<DefOf("f", <<0, 1, 2>>)>>
  /\ drv_error = ArityError("f", 0, 1)

\* the direct sub-expressions of `line` that main's evaluation evaluates, each
\* with the variables it is evaluated under
EvaluatedParts(line) ==
  CASE line.a = "Tuple" -> {line.elements[i] : i \in 1..Len(line.elements)}
    [] line.a = "Let" -> {line.value}
    [] line.a = "Binary" -> {line.lhs, line.rhs}
    [] line.a = "Call" ->
         IF line.callee.a = "Variable" /\ line.callee.name \in DOMAIN env.fn_definitions
           THEN {line.arguments[i] :
                   i \in 1..Min({Len(line.arguments),
                                 Len(env.fn_definitions[line.callee.name].parameters)})}
           ELSE {}
    [] line.a = "If" -> {line.condition}
    [] OTHER -> {}

SubExpressionFails(line) ==
  \E part \in EvaluatedParts(line) : eval(env, desugar(part, hash_order)).kind = "Err"

\* C9: failures are never silently dropped. When the evaluation of a tuple
\* element, call argument, let value, binary operand or condition of the line
\* fails, the evaluation of the line fails.
C9_FailuresPropagate ==
  (drv_pc = "repl" /\ input # NoExpr /\ SubExpressionFails(input)) => result.kind = "Err"

\* C10: desugar errors block execution. When any definition of the file fails to
\* desugar, main exits with that error: no Env is built and nothing is evaluated.
C10_DesugarErrorsBlock ==
  (drv_pc \notin {"idle", "parsed"} /\ Mismatched # {}) =>
    /\ drv_pc = "exit_error"
    /\ drv_error.name = program[Min(Mismatched)].name
    /\ env = NoEnv
    /\ input = NoExpr
    /\ result = NoResult

\* a file whose first definition desugars and whose second does not is rejected
C10_Witness ==
  /\ drv_pc = "exit_error"
  /\ Len(program) >= 2
  /\ Uniform(program[1])
  /\ ~Uniform(program[2])
  /\ env = NoEnv

\* the definition has exactly one clause and all its parameter patterns bind
SingleBindingClause(def) ==
  /\ Len(def.clauses) = 1
  /\ \A j \in 1..Len(def.clauses[1].patterns) :
       def.clauses[1].patterns[j].k \in {"Wildcard", "Variable"}

\* C24: single-clause shortcut. A function with exactly one clause whose
\* parameter patterns are all wildcards or variables desugars to a definition
\* whose body is the desugared clause body itself, with no Match node around
\* it, and whose parameters are the clause's variables.
C24_SingleClauseShortcut ==
  drv_pc = "repl" =>
    \A i \in 1..Len(program) :
      SingleBindingClause(program[i]) =>
        /\ env.fn_definitions[program[i].name].body.e # "Match"
        /\ env.fn_definitions[program[i].name].body =
             desugar(program[i].clauses[1].body, hash_order)
        /\ \A j \in 1..Len(program[i].clauses[1].patterns) :
             program[i].clauses[1].patterns[j].k = "Variable" =>
               env.fn_definitions[program[i].name].parameters[j] =
                 program[i].clauses[1].patterns[j].s

(***************************************************************************)
(* One Ctx used for several functions: each is compiled by fn_definition   *)
(* and its unit is taken by Ctx::bytecode before the next is compiled.     *)
(***************************************************************************)
\* the functions compiled: desugared definitions with parameters, and bodies
\* without parameters that use constants, locals, tests and jumps
UnitFunctions ==
  {fn_desugar(DefOf("f", <<1>>), "asc").def,
   fn_desugar(DefOf("g", <<2, 2>>), "asc").def,
   FnDefinition("h", <<>>,
     desugar(ALet("x", ATuple(<<ANumber(1), ANumber(99)>>),
               AMatch(<<AVariable("x")>>,
                 <<Arm(<<PTuple(<<PNumber(1), PVariable("x")>>)>>, AVariable("x")),
                   Arm(<<PString("oi")>>, AString("tchau")),
                   Arm(<<PWildcard>>, ANumber(69))>>)), "asc")),
   FnDefinition("h", <<>>, desugar(AIf(AAtom("true"), ANumber(1), AAtom("ok")), "asc")),
   FnDefinition("h", <<>>, desugar(ATuple(<<AAtom("ok"), AString("oi")>>), "asc")),
   FnDefinition("h", <<"y">>,
     desugar(ALet("x", AVariable("y"), ATuple(<<AVariable("x"), AString("oi")>>)), "asc"))}

\* the functions given to one Ctx, in order
UnitSequences == [1..2 -> UnitFunctions]

InitUnits ==
  /\ VmIdle
  /\ program \in UnitSequences
  /\ drv_pc = "unit_compile"
  /\ drv_error = NoError
  /\ env = NoEnv
  /\ input = NoExpr
  /\ result = NoResult
  /\ pool = NewCtx
  /\ issued = <<>>
  /\ last_request = ConstNumber(0)

\* ctx.fn_definition(fun) on the next function
UnitFnDefinition ==
  /\ drv_pc = "unit_compile"
  /\ Len(issued) < Len(program)
  /\ \E c \in {fn_definition(pool, program[Len(issued) + 1])} :
       /\ pool' = c
       /\ drv_pc' = IF c.panic # "" THEN "unit_panic" ELSE "unit_take"
  /\ UNCHANGED <<program, drv_error, env, input, result, issued, last_request,
                 vmVars, walkVars, genVars>>

\* ctx.bytecode(): the unit is returned and the Ctx is left for the next function
UnitBytecode ==
  /\ drv_pc = "unit_take"
  /\ issued' = Append(issued, bytecode(pool))
  /\ pool' = AfterBytecode(pool)
  /\ drv_pc' = "unit_compile"
  /\ UNCHANGED <<program, drv_error, env, input, result, last_request,
                 vmVars, walkVars, genVars>>

NextUnits == UnitFnDefinition \/ UnitBytecode

SpecUnits == InitUnits /\ [][NextUnits]_vars

\* C23: per-function state is reset. Every unit taken from the shared Ctx is
\* the unit a new Ctx produces for that function (instructions, constant ids,
\* slot ids, local count), and after Ctx::bytecode nothing of the function
\* remains in the Ctx.
C23_StateResetBetweenFunctions ==
  /\ \A k \in 1..Len(issued) : issued[k] = bytecode(fn_definition(NewCtx, program[k]))
  /\ drv_pc = "unit_compile" => pool = NewCtx

\* C23, witness: a second unit has been taken after a first function that left
\* instructions, constants and locals behind, and the two functions differ
C23_Witness ==
  /\ Len(issued) = 2
  /\ program[1] # program[2]
  /\ Len(issued[1].bytecode) > 0
  /\ PoolLen(issued[1].constants) > 0
  /\ issued[1].locals > 0
  /\ PoolLen(issued[2].constants) > 0
  /\ issued[2].locals > 0

====
